---- MODULE Spec2Model ----
(***************************************************************************)
(* A model of negalog's detection pipeline: the timestamp-ordered merged   *)
(* source (pkg/parser), the three rule engines (pkg/analyzer) and the      *)
(* analyzer that drives them; beside the pipeline, the file source, the    *)
(* timestamp-format detector (pkg/detector), glob expansion (pkg/parser)   *)
(* and the validation of a configuration (pkg/config); around them, the   *)
(* analyze command and its exit code (internal/cli), a periodic rule      *)
(* continued from one run to the next by its exported state, and one       *)
(* conditional engine whose operations goroutines invoke concurrently.     *)
(*                                                                         *)
(* Time points are integers, durations are their differences.  A log line  *)
(* is abstracted to the sequence of tokens the rules' regular expressions  *)
(* can find in it; a pattern is the word it looks for, and its single      *)
(* capture group is the id that follows the word.                          *)
(***************************************************************************)
EXTENDS Integers, Sequences, FiniteSets, TLC

VARIABLES
  \* ---- merged source (pkg/parser) ----
  srcs,      \* the underlying sources: [line, eof] per source index
  nread,     \* history: number of records the sources have yielded
  heap,      \* MergedSource.heap: sequence of heapItem [line, sourceIdx]
  closed,    \* MergedSource.closed
  mres,      \* what the last MergedSource.Next returned: [kind, line]
  prevLine,  \* history: the record the previous successful Next returned
  chrono,    \* history: every source has yielded non-decreasing timestamps
  errSeen,   \* history: some underlying source has returned an error
  srcLast,   \* history: timestamp of the last record each source yielded
  lastPulls, \* history: what the sources returned to the last MergedSource.Next
  myield,    \* history: the records the sources have yielded, in order
  memit,     \* history: the records MergedSource.Next has returned, in order
  \* ---- one rule engine (pkg/analyzer) ----
  erule,     \* the engine's rule (config.RuleConfig)
  eng,       \* the engine's state
  estream,   \* history: the records processed since the engine was made or reset
  eres,      \* the RuleResult Finalize returned, NoResult before
  wasReset,  \* history: the engine has been reset after use
  \* ---- the analyzer (pkg/analyzer) ----
  acfg,      \* Analyzer.cfg as NewAnalyzer keeps it: the rules and the time range
  aengines,  \* Analyzer.engines: the engines' states, in rule order
  apc,       \* where Analyze is: "idle", "reading", "done" or "failed"
  arun,      \* number of Analyze calls made
  ameta,     \* result.Metadata of the Analyze call in progress
  aout,      \* what the Analyze calls returned, one entry per call
  ainput,    \* history: the records the source of the first call delivered
  acalls,    \* history: the Process calls of the Analyze call in progress
  aops,      \* history: every call the analyzer made to an engine, in order
  actx,      \* the context of the Analyze call: "live" or "cancelled"
  asrcerr,   \* history: the error the source returned to the Analyze call
  apos,      \* mockSource.index of the source of a later call
  \* ---- one file source (pkg/parser) ----
  fsrc,      \* the FileSource: fileIndex, currentFile, currentScanner, ...
  fdisk,     \* history: what opening and reading each file has shown so far
  fhandles,  \* the files the process holds an open handle of
  fres,      \* what the last call of Next or Close returned
  fyield,    \* history: the records Next has returned
  flines,    \* history: number of lines read from the files
  \* ---- the format detector (pkg/detector) and an extractor ----
  dinput,    \* the lines of the file, or of the sample, given to the detector
  dvia,      \* the call made: "none", "file" (DetectFromFile) or "lines"
  dlines,    \* history: the lines DetectFromLines was called with
  dres,      \* the DetectionResult the call returned
  dext,      \* what the extractor built from a detected format returned last
  \* ---- glob expansion (pkg/parser) ----
  gpatterns, \* the patterns ExpandGlobs is called with
  gfiles,    \* the names of the files that exist
  gres,      \* what ExpandGlobs returned: [kind, paths, err]
  \* ---- configuration validation (pkg/config) ----
  vcfg,      \* the Config given to Validate, which Validate fills in
  vres,      \* what Validate returned: [kind, err]
  \* ---- the analyze command (internal/cli) ----
  cworld,    \* what the command finds: options, configuration, files, analysis
  cpc,       \* where the process is: "start", "webhooks", "returned", "failed", "exited"
  creport,   \* the report runAnalyze built
  csent,     \* history: what became of each webhook, in order
  ExitCode,  \* commands.ExitCode
  cerr,      \* the error runAnalyze returned
  ccode,     \* what Execute returned, -1 before
  \* ---- a periodic rule continued over two runs (pkg/analyzer) ----
  xstreams,  \* the records of the first and of the second run
  xcfg,      \* the configuration of the analyzers: one periodic rule
  xengines,  \* the engines of the analyzer of the run at hand
  xstate,    \* the PeriodicState exported after the first run
  xpc,       \* what comes next: "first", "export", "import", "second", "done"
  xout,      \* what the Analyze calls returned, one entry per run
  lrule,     \* the conditional rule of the engine that goroutines share
  leng,      \* the state of the shared engine
  lmu,       \* e.mu: the goroutine holding the mutex, 0 when it is free
  lthreads,  \* per goroutine: the operation it is in and its position in it
  lcalls,    \* operations invoked so far
  lserial    \* history: the engine after the operations, whole, in locking order

mergeVars ==
  <<srcs, nread, heap, closed, mres, prevLine, chrono, errSeen, srcLast, lastPulls,
    myield, memit>>
engineVars == <<erule, eng, estream, eres, wasReset>>
analyzeVars ==
  <<acfg, aengines, apc, arun, ameta, aout, ainput, acalls, aops, actx, asrcerr, apos>>

fileVars == <<fsrc, fdisk, fhandles, fres, fyield, flines>>

\* The parts beside the one a specification of the pipeline runs.
detectVars == <<dinput, dvia, dlines, dres, dext>>

globVars == <<gpatterns, gfiles, gres>>

validateVars == <<vcfg, vres>>

commandVars == <<cworld, cpc, creport, csent, ExitCode, cerr, ccode>>

continueVars == <<xstreams, xcfg, xengines, xstate, xpc, xout>>

lockVars == <<lrule, leng, lmu, lthreads, lcalls, lserial>>

toolVars == <<fileVars, detectVars, globVars, validateVars, commandVars, continueVars, lockVars>>
pipelineVars == <<mergeVars, engineVars, analyzeVars>>

vars == <<mergeVars, engineVars, analyzeVars, toolVars>>

\* ------------------------------------------------------------------ bounds
NSources == 2   \* number of underlying sources of the merged source
MaxRecords == 3 \* records the underlying sources yield at most, together
MaxTs    == 2   \* timestamps are 0..MaxTs
MaxStream == 3  \* records one engine processes between two resets, at most
RuleTimeout == 1 \* the timeout and the max gap of the rules
MaxRuns == 2    \* Analyze calls made on one analyzer, at most
NFiles == 2     \* files of the file source
MaxLines == 3   \* lines the files of the file source hold at most, together
MaxSample == 3  \* lines of the file or of the sample given to the detector
MaxPatterns == 3 \* patterns given to ExpandGlobs
MaxRules == 2   \* rules of a configuration given to Validate
NThreads == 2   \* goroutines sharing one engine
MaxCalls == 3   \* operations invoked on the shared engine, at most
MaxWebhooks == 1 \* webhooks of the configuration the analyze command loads

SrcIdx == 0 .. (NSources - 1)
Times  == 0 .. MaxTs

\* ------------------------------------------------------------ ParsedLine
NoLine == [ts |-> -1, source |-> -1, lineNum |-> 0, raw |-> <<>>]

ParsedLine(ts, source, lineNum, raw) ==
  [ts |-> ts, source |-> source, lineNum |-> lineNum, raw |-> raw]

\* --------------------------------------------- container/heap on lineHeap
\* Indices are 0-based as in the Go code; h[i + 1] is Go's h[i].

\* A heap ordered by source index, which yields the sources one after another
LessBySourceIndex(h, i, j) == h[i + 1].sourceIdx < h[j + 1].sourceIdx

\* lineHeap.Less with the comparison reversed (a max-heap)
LessReversed(h, i, j) == h[i + 1].line.ts > h[j + 1].line.ts

Less(h, i, j) == h[i + 1].line.ts < h[j + 1].line.ts

Swap(h, i, j) == [h EXCEPT ![i + 1] = h[j + 1], ![j + 1] = h[i + 1]]

RECURSIVE HeapUp(_, _)
HeapUp(h, j) ==
  LET i == IF j = 0 THEN 0 ELSE (j - 1) \div 2   \* parent
  IN  IF i = j \/ ~Less(h, j, i) THEN h
      ELSE HeapUp(Swap(h, i, j), i)

RECURSIVE HeapDown(_, _, _)
HeapDown(h, i, n) ==
  LET j1 == 2 * i + 1
      j2 == j1 + 1
      j  == IF j2 < n /\ Less(h, j2, j1) THEN j2 ELSE j1
  IN  IF j1 >= n THEN h
      ELSE IF ~Less(h, j, i) THEN h
      ELSE HeapDown(Swap(h, i, j), j, n)

HeapPush(h, x) == HeapUp(Append(h, x), Len(h))

\* heap.Pop: swap the root with the last element, sift the new root down
\* over the first n elements, then lineHeap.Pop removes the last element.
HeapPop(h) ==
  LET n  == Len(h) - 1
      h1 == HeapDown(Swap(h, 0, n), 0, n)
  IN  [item |-> h1[n + 1], heap |-> SubSeq(h1, 1, n)]

RECURSIVE HeapInitFrom(_, _)
HeapInitFrom(h, i) ==
  IF i < 0 THEN h ELSE HeapInitFrom(HeapDown(h, i, Len(h)), i - 1)

HeapInit(h) == HeapInitFrom(h, (Len(h) \div 2) - 1)

\* ------------------------------------------------- the underlying sources
\* What one call of an underlying source's Next can do: yield a record with
\* a timestamp and a text, report end-of-stream, or fail.
Choice(kind, ts, raw) == [kind |-> kind, ts |-> ts, raw |-> raw]

ChoicesOver(raws) ==
  {Choice("line", t, r) : t \in Times, r \in raws}
    \cup {Choice("eof", 0, <<>>), Choice("err", 0, <<>>)}

NewSource == [line |-> 0, eof |-> FALSE]

\* FileSource.Next on source i under the choice c, n records having been
\* yielded so far.  A source that has reported end-of-stream has no file left
\* to open and reports it again; a failure (cancellation, a read error)
\* consumes nothing.
Pull(s, i, c, n) ==
  IF c.kind = "err"
    THEN [out |-> [kind |-> "err", line |-> NoLine, from |-> i], src |-> s, n |-> n]
  ELSE IF s.eof \/ c.kind = "eof" \/ n >= MaxRecords
    THEN [out |-> [kind |-> "eof", line |-> NoLine], src |-> [s EXCEPT !.eof = TRUE], n |-> n]
  ELSE [out |-> [kind |-> "line", line |-> ParsedLine(c.ts, i, s.line + 1, c.raw)],
        src |-> [s EXCEPT !.line = @ + 1], n |-> n + 1]

\* ---------------------------------------------------------- MergedSource
NewMergedSource == [srcs |-> [i \in SrcIdx |-> NewSource], heap |-> <<>>, closed |-> FALSE]

\* initHeap from source i on: st carries the sources, the heap, the pulls
\* made so far and whether one of them failed.
RECURSIVE InitHeapFrom(_, _, _)
InitHeapFrom(st, i, cs) ==
  IF i >= NSources THEN st
  ELSE
    LET p   == Pull(st.srcs[i], i, cs[i], st.n)
        st1 == [st EXCEPT !.srcs[i] = p.src, !.n = p.n,
                          !.pulls = Append(@, [idx |-> i, out |-> p.out])]
    IN  IF p.out.kind = "eof" THEN InitHeapFrom(st1, i + 1, cs)
        ELSE IF p.out.kind = "err" THEN [st1 EXCEPT !.err = TRUE]
        ELSE InitHeapFrom(
               [st1 EXCEPT !.heap = HeapPush(@, [line |-> p.out.line, sourceIdx |-> i])],
               i + 1, cs)

initHeap(st, cs) == InitHeapFrom([st EXCEPT !.heap = HeapInit(@)], 0, cs)

\* MergedSource.Next, "else if err != io.EOF": the refill failed.
RefillNeverFails(out) == FALSE

RefillFailed(out) == out.kind = "err"

\* MergedSource.Next, the refill found the popped record's source at
\* end-of-stream: the popped record is returned.
EndOnRefillEOF(line) == [kind |-> "eof", line |-> NoLine]

AfterRefillEOF(line) == [kind |-> "line", line |-> line]

\* MergedSource.Next.  cs: what each source does when the heap is seeded;
\* c2: what the popped record's source does when the heap is refilled.
\* Yields the new sources and heap, the result and the pulls made.
MergedNext(m, cs, c2) ==
  LET st0 == [srcs |-> m.srcs, heap |-> m.heap, n |-> m.n, pulls |-> <<>>, err |-> FALSE]
      st1 == IF Len(m.heap) = 0 /\ ~m.closed THEN initHeap(st0, cs) ELSE st0
  IN  IF st1.err
        THEN [srcs |-> st1.srcs, heap |-> st1.heap, n |-> st1.n, pulls |-> st1.pulls,
              res |-> st1.pulls[Len(st1.pulls)].out]
      ELSE IF Len(st1.heap) = 0
        THEN [srcs |-> st1.srcs, heap |-> st1.heap, n |-> st1.n, pulls |-> st1.pulls,
              res |-> [kind |-> "eof", line |-> NoLine]]
      ELSE
        LET pp   == HeapPop(st1.heap)
            item == pp.item
            p    == Pull(st1.srcs[item.sourceIdx], item.sourceIdx, c2, st1.n)
            srcs1  == [st1.srcs EXCEPT ![item.sourceIdx] = p.src]
            pulls1 == Append(st1.pulls, [idx |-> item.sourceIdx, out |-> p.out])
        IN  IF p.out.kind = "line"
              THEN [srcs |-> srcs1, n |-> p.n, pulls |-> pulls1,
                    heap |-> HeapPush(pp.heap, [line |-> p.out.line,
                                                sourceIdx |-> item.sourceIdx]),
                    res |-> [kind |-> "line", line |-> item.line]]
            ELSE IF RefillFailed(p.out)
              THEN [srcs |-> srcs1, n |-> p.n, pulls |-> pulls1,
                    heap |-> pp.heap,
                    res |-> p.out]
            ELSE [srcs |-> srcs1, n |-> p.n, pulls |-> pulls1,
                  heap |-> pp.heap,
                  res |-> AfterRefillEOF(item.line)]

\* MergedSource.Close: every underlying source is closed; a closed
\* single-file source has no file left and reports end-of-stream.
MergedClose(m) ==
  [m EXCEPT !.closed = TRUE,
            !.srcs = [i \in SrcIdx |-> [m.srcs[i] EXCEPT !.eof = TRUE]]]

\* History of the pulls: the last timestamp of each source, whether every
\* source was chronological so far, whether a pull failed.
RECURSIVE PullHistory(_, _)
PullHistory(g, pulls) ==
  IF pulls = <<>> THEN g
  ELSE
    LET p == Head(pulls)
        g1 == IF p.out.kind = "err" THEN [g EXCEPT !.err = TRUE]
              ELSE IF p.out.kind = "line"
                THEN [g EXCEPT !.last[p.idx] = p.out.line.ts,
                               !.chrono = @ /\ (p.out.line.ts >= g.last[p.idx])]
              ELSE g
    IN  PullHistory(g1, Tail(pulls))

\* The records among the pulls of one call, in order.
RECURSIVE YieldedBy(_)
YieldedBy(pulls) ==
  IF pulls = <<>> THEN <<>>
  ELSE (IF Head(pulls).out.kind = "line" THEN <<Head(pulls).out.line>> ELSE <<>>)
         \o YieldedBy(Tail(pulls))

\* ------------------------------------------------------- lines and rules
\* A line's text is the sequence of tokens [word, id] the patterns can find
\* in it.  A pattern [word, groups] finds the leftmost token of its word; its
\* capture group, if it has one, is the token's id.
Ids == {"a", "b"}
Nil == <<>>

Token(word, id) == [word |-> word, id |-> id]
Pattern(word, groups) == [word |-> word, groups |-> groups]

\* regexp.FindStringSubmatch: nil, or the whole match followed by the
\* capture groups.
FindStringSubmatch(pat, raw) ==
  LET hits == {k \in 1 .. Len(raw) : raw[k].word = pat.word}
  IN  IF hits = {} THEN Nil
      ELSE LET k == CHOOSE x \in hits : \A y \in hits : x <= y
           IN  IF pat.groups >= 1 THEN <<raw[k].word, raw[k].id>> ELSE <<raw[k].word>>

MatchString(pat, raw) == \E k \in 1 .. Len(raw) : raw[k].word = pat.word

\* config.RuleConfig after validation, one constructor per rule type.
NoPattern == Pattern("", 0)

SequenceRule(name, timeout, corrField) ==
  [Name |-> name, Type |-> "sequence", Timeout |-> timeout, CorrelationField |-> corrField,
   MaxGap |-> 0, MinOccurrences |-> 0,
   StartPattern |-> Pattern("START", 1), EndPattern |-> Pattern("END", 1),
   Pattern |-> NoPattern, TriggerPattern |-> NoPattern, ExpectedPattern |-> NoPattern]

PeriodicRule(name, maxGap, minOccurrences) ==
  [Name |-> name, Type |-> "periodic", Timeout |-> 0, CorrelationField |-> 0,
   MaxGap |-> maxGap, MinOccurrences |-> minOccurrences,
   StartPattern |-> NoPattern, EndPattern |-> NoPattern,
   Pattern |-> Pattern("HEARTBEAT", 0), TriggerPattern |-> NoPattern,
   ExpectedPattern |-> NoPattern]

ConditionalRule(name, timeout, corrField) ==
  [Name |-> name, Type |-> "conditional", Timeout |-> timeout, CorrelationField |-> corrField,
   MaxGap |-> 0, MinOccurrences |-> 0,
   StartPattern |-> NoPattern, EndPattern |-> NoPattern, Pattern |-> NoPattern,
   TriggerPattern |-> Pattern("ERROR", 1), ExpectedPattern |-> Pattern("ALERT", 1)]

\* ------------------------------------------------------ issues and results
NoTime == -1

IssueContext(corrID, startTime, endTime, source, lineNum, timeout, actualGap, expectedGap, occurrences, minRequired) ==
  [CorrelationID |-> corrID, StartTime |-> startTime, EndTime |-> endTime,
   Source |-> source, LineNum |-> lineNum, Timeout |-> timeout,
   ActualGap |-> actualGap, ExpectedGap |-> expectedGap,
   Occurrences |-> occurrences, MinRequired |-> minRequired]

\* The description is the format string's name and its arguments.
Issue(type, description, context) ==
  [Type |-> type, Description |-> description, Context |-> context]

RuleResult(rule, issues, stats) ==
  [RuleName |-> rule.Name, RuleType |-> rule.Type, Issues |-> issues, Stats |-> stats]

NoResult == [RuleName |-> "", RuleType |-> "", Issues |-> <<>>,
             Stats |-> [LinesProcessed |-> -1, LinesMatched |-> -1]]

\* ----------------------------------------------------------- the engines
\* An engine's state: the open sequences (a map from correlation id to
\* tracker), the periodic matches, the pending triggers, the counters.  An
\* engine uses the part of its rule type.
NoStats == [LinesProcessed |-> 0, LinesMatched |-> 0]

NewEngine == [openSequences |-> <<>>, matches |-> <<>>, triggers |-> <<>>,
              stats |-> NoStats]

\* A map assignment that keeps the entry a key already has
MapPutIfAbsent(m, k, v) == [x \in (DOMAIN m) \cup {k} |-> IF x \in DOMAIN m THEN m[x] ELSE v]

\* m[k] = v and delete(m, k) on a Go map
MapPut(m, k, v) == [x \in (DOMAIN m) \cup {k} |-> IF x = k THEN v ELSE m[x]]
MapDelete(m, k) == [x \in (DOMAIN m) \ {k} |-> m[x]]

\* The timeout test with the bound excluded
CompletedStrictlyWithin(elapsed, timeout) == elapsed < timeout

\* The timeout test that lets an end event of any age complete the sequence
CompletedWhenever(elapsed, timeout) == TRUE

\* SequenceEngine.Process: "if elapsed <= e.timeout"
CompletedWithin(elapsed, timeout) == elapsed <= timeout

\* SequenceEngine.Process
SequenceProcess(e, rule, line) ==
  LET e0 == [e EXCEPT !.stats.LinesProcessed = @ + 1]
      sm == FindStringSubmatch(rule.StartPattern, line.raw)
      e1 == IF sm # Nil /\ rule.CorrelationField <= Len(sm) - 1
              THEN LET corrID == sm[rule.CorrelationField + 1]
                   IN  [e0 EXCEPT
                          !.openSequences =
                             MapPut(@, corrID,
                                    [correlationID |-> corrID, startTime |-> line.ts,
                                     source |-> line.source, lineNum |-> line.lineNum]),
                          !.stats.LinesMatched = @ + 1]
              ELSE e0
      em == FindStringSubmatch(rule.EndPattern, line.raw)
  IN  IF em # Nil /\ rule.CorrelationField <= Len(em) - 1
        THEN LET corrID == em[rule.CorrelationField + 1]
             IN  IF corrID \in DOMAIN e1.openSequences
                    /\ CompletedWithin(line.ts - e1.openSequences[corrID].startTime,
                                       rule.Timeout)
                   THEN [e1 EXCEPT !.openSequences = MapDelete(@, corrID)]
                   ELSE e1
        ELSE e1

\* All orders of a finite set, as sequences.
RECURSIVE Orders(_)
Orders(S) ==
  IF S = {} THEN {<<>>}
  ELSE UNION {{<<x>> \o rest : rest \in Orders(S \ {x})} : x \in S}

MissingEndIssue(rule, tracker) ==
  Issue("missing_end", <<"Sequence started but not completed within", rule.Timeout>>,
        IssueContext(tracker.correlationID, tracker.startTime, NoTime, tracker.source,
                     tracker.lineNum, rule.Timeout, 0, 0, 0, 0))

\* SequenceEngine.Finalize ranges over the map of open sequences; Go leaves
\* the iteration order of a map unspecified, so every order is possible.
SequenceFinalize(e, rule) ==
  {RuleResult(rule,
              [k \in 1 .. Len(order) |-> MissingEndIssue(rule, e.openSequences[order[k]])],
              e.stats)
     : order \in Orders(DOMAIN e.openSequences)}

\* PeriodicEngine.Process
PeriodicProcess(e, rule, line) ==
  LET e0 == [e EXCEPT !.stats.LinesProcessed = @ + 1]
  IN  IF MatchString(rule.Pattern, line.raw)
        THEN [e0 EXCEPT !.matches = Append(@, [timestamp |-> line.ts, source |-> line.source,
                                               lineNum |-> line.lineNum]),
                        !.stats.LinesMatched = @ + 1]
        ELSE e0

GapExceededIssue(rule, prev, curr) ==
  Issue("gap_exceeded",
        <<"Gap between occurrences (max allowed)", curr.timestamp - prev.timestamp, rule.MaxGap>>,
        IssueContext("", prev.timestamp, curr.timestamp, prev.source, prev.lineNum, 0,
                     curr.timestamp - prev.timestamp, rule.MaxGap, 0, 0))

BelowMinOccurrencesIssue(rule, n) ==
  Issue("below_min_occurrences", <<"Only occurrences found (minimum required)", n, rule.MinOccurrences>>,
        IssueContext("", NoTime, NoTime, "", 0, 0, 0, 0, n, rule.MinOccurrences))

\* The gap test with the bound included
GapReaches(gap, maxGap) == gap >= maxGap

\* PeriodicEngine.Finalize: "if gap > e.maxGap"
GapExceeds(gap, maxGap) == gap > maxGap

\* The occurrence test with the minimum itself counted as too few
AtOrBelowMinOccurrences(n, minOccurrences) == minOccurrences > 0 /\ n <= minOccurrences

\* PeriodicEngine.Finalize: "if e.minOccurrences > 0 && len(e.matches) < e.minOccurrences"
BelowMinOccurrences(n, minOccurrences) == minOccurrences > 0 /\ n < minOccurrences

\* The gap loop of PeriodicEngine.Finalize, from index i on (0-based).
RECURSIVE GapIssuesFrom(_, _, _)
GapIssuesFrom(matches, rule, i) ==
  IF i >= Len(matches) THEN <<>>
  ELSE LET prev == matches[i]        \* Go's matches[i-1]
           curr == matches[i + 1]    \* Go's matches[i]
       IN  (IF GapExceeds(curr.timestamp - prev.timestamp, rule.MaxGap)
              THEN <<GapExceededIssue(rule, prev, curr)>> ELSE <<>>)
           \o GapIssuesFrom(matches, rule, i + 1)

\* PeriodicEngine.Finalize
PeriodicFinalize(e, rule) ==
  {RuleResult(rule,
              GapIssuesFrom(e.matches, rule, 1)
                \o (IF BelowMinOccurrences(Len(e.matches), rule.MinOccurrences)
                      THEN <<BelowMinOccurrencesIssue(rule, Len(e.matches))>> ELSE <<>>),
              e.stats)}

\* The satisfaction test without the timeout
SatisfiedWhenever(rule, trigger, corrID, eventTime) ==
  rule.CorrelationField > 0 => trigger.correlationID = corrID

\* ConditionalEngine.removeSatisfiedTriggers: whether the expected event
\* (corrID, eventTime) satisfies the trigger.
Satisfied(rule, trigger, corrID, eventTime) ==
  IF rule.CorrelationField > 0
    THEN trigger.correlationID = corrID /\ eventTime - trigger.timestamp <= rule.Timeout
    ELSE eventTime - trigger.timestamp <= rule.Timeout

\* The loop of ConditionalEngine.removeSatisfiedTriggers from the trigger at
\* index i on (1-based), newTriggers holding the triggers kept so far.
RECURSIVE RemoveFrom(_, _, _, _, _, _)
RemoveFrom(triggers, rule, i, newTriggers, corrID, eventTime) ==
  IF i > Len(triggers) THEN newTriggers
  ELSE
    LET trigger == triggers[i]
        satisfied == Satisfied(rule, trigger, corrID, eventTime)
    IN  IF ~satisfied
          THEN RemoveFrom(triggers, rule, i + 1, Append(newTriggers, trigger), corrID, eventTime)
        ELSE IF rule.CorrelationField = 0
          \* e.triggers[len(newTriggers)+1:], and break
          THEN newTriggers \o SubSeq(triggers, Len(newTriggers) + 2, Len(triggers))
        ELSE RemoveFrom(triggers, rule, i + 1, newTriggers, corrID, eventTime)

\* removeSatisfiedTriggers without the break after the first satisfied
\* trigger of an uncorrelated rule
removeEverySatisfiedTrigger(triggers, rule, corrID, eventTime) ==
  SelectSeq(triggers, LAMBDA t : ~Satisfied(rule, t, corrID, eventTime))

removeSatisfiedTriggers(triggers, rule, corrID, eventTime) ==
  RemoveFrom(triggers, rule, 1, <<>>, corrID, eventTime)

\* ConditionalEngine.Process
ConditionalProcess(e, rule, line) ==
  LET e0 == [e EXCEPT !.stats.LinesProcessed = @ + 1]
      tm == FindStringSubmatch(rule.TriggerPattern, line.raw)
      e1 == IF tm # Nil
              THEN [e0 EXCEPT
                      !.triggers =
                         Append(@, [correlationID |->
                                      IF rule.CorrelationField > 0
                                         /\ rule.CorrelationField <= Len(tm) - 1
                                        THEN tm[rule.CorrelationField + 1] ELSE "",
                                    timestamp |-> line.ts, source |-> line.source,
                                    lineNum |-> line.lineNum]),
                      !.stats.LinesMatched = @ + 1]
              ELSE e0
      xm == FindStringSubmatch(rule.ExpectedPattern, line.raw)
  IN  IF xm # Nil
        THEN LET corrID == IF rule.CorrelationField > 0
                              /\ rule.CorrelationField <= Len(xm) - 1
                             THEN xm[rule.CorrelationField + 1] ELSE ""
             IN  [e1 EXCEPT !.triggers = removeSatisfiedTriggers(@, rule, corrID, line.ts)]
        ELSE e1

MissingConsequenceIssue(rule, trigger) ==
  Issue("missing_consequence",
        IF trigger.correlationID # ""
          THEN <<"Trigger event (id) without expected consequence within",
                 trigger.correlationID, rule.Timeout>>
          ELSE <<"Trigger event without expected consequence within", rule.Timeout>>,
        IssueContext(trigger.correlationID, trigger.timestamp, NoTime, trigger.source,
                     trigger.lineNum, rule.Timeout, 0, 0, 0, 0))

\* A Finalize that reports only the triggers older than the timeout when the
\* last trigger arrived
ConditionalFinalizeExpiredOnly(e, rule) ==
  LET old == SelectSeq(e.triggers,
                       LAMBDA t : e.triggers[Len(e.triggers)].timestamp - t.timestamp
                                    > rule.Timeout)
  IN  {RuleResult(rule, [k \in 1 .. Len(old) |-> MissingConsequenceIssue(rule, old[k])],
                  e.stats)}

\* ConditionalEngine.Finalize
ConditionalFinalize(e, rule) ==
  {RuleResult(rule,
              [k \in 1 .. Len(e.triggers) |-> MissingConsequenceIssue(rule, e.triggers[k])],
              e.stats)}

\* SequenceEngine.Reset, PeriodicEngine.Reset, ConditionalEngine.Reset
SequenceReset(e) == [e EXCEPT !.openSequences = <<>>, !.stats = NoStats]
PeriodicReset(e) == [e EXCEPT !.matches = <<>>, !.stats = NoStats]
ConditionalReset(e) == [e EXCEPT !.triggers = <<>>, !.stats = NoStats]

\* The RuleEngine interface, dispatched on the rule type.
Process(e, rule, line) ==
  CASE rule.Type = "sequence"    -> SequenceProcess(e, rule, line)
    [] rule.Type = "periodic"    -> PeriodicProcess(e, rule, line)
    [] rule.Type = "conditional" -> ConditionalProcess(e, rule, line)

Finalize(e, rule) ==
  CASE rule.Type = "sequence"    -> SequenceFinalize(e, rule)
    [] rule.Type = "periodic"    -> PeriodicFinalize(e, rule)
    [] rule.Type = "conditional" -> ConditionalFinalize(e, rule)

\* A Reset that clears the counters and forgets the collections
ResetCountersOnly(e, rule) == [e EXCEPT !.stats = NoStats]

Reset(e, rule) ==
  CASE rule.Type = "sequence"    -> SequenceReset(e)
    [] rule.Type = "periodic"    -> PeriodicReset(e)
    [] rule.Type = "conditional" -> ConditionalReset(e)

\* ----------------------------------------------------------- the analyzer
\* Analyzer.timeRange: nil, or the window [Start, End].
NoTimeRange == [set |-> FALSE, Start |-> 0, End |-> 0]
TimeRange(start, end) == [set |-> TRUE, Start |-> start, End |-> end]

\* AnalysisMetadata without its wall-clock times.
NoMetadata == [Sources |-> <<>>, LinesProcessed |-> 0]

\* WithRuleFilter: the names of the rules to run; none given, no filter.
NoRuleFilter == {}
Selected(rule, ruleFilter) == ruleFilter = NoRuleFilter \/ rule.Name \in ruleFilter
RECURSIVE SelectedRules(_, _)
SelectedRules(Rules, ruleFilter) ==
  IF Rules = <<>> THEN <<>>
  ELSE (IF Selected(Head(Rules), ruleFilter) THEN <<Head(Rules)>> ELSE <<>>)
         \o SelectedRules(Tail(Rules), ruleFilter)

\* NewAnalyzer, "rule := &cfg.Rules[i]": the rule the k-th engine is made of.
LastRule(selected, k) == selected[Len(selected)]

EngineRule(selected, k) == selected[k]

\* NewAnalyzer: one engine per rule the filter keeps, in rule order.  Rules
\* is cfg.Rules; rules are the rules of the engines.
NewAnalyzer(Rules, timeRange, ruleFilter) ==
  LET selected == SelectedRules(Rules, ruleFilter)
  IN  [cfg |-> [Rules |-> Rules, ruleFilter |-> ruleFilter, timeRange |-> timeRange,
                rules |-> [k \in 1 .. Len(selected) |-> EngineRule(selected, k)]],
       engines |-> [k \in 1 .. Len(selected) |-> NewEngine],
       err |-> IF selected = <<>> THEN <<"no rules to execute (check --rule filter)">>
               ELSE <<>>]

\* Analyze, "Reset all engines before analysis".
ResetAll(engines, rules) == [k \in 1 .. Len(engines) |-> Reset(engines[k], rules[k])]

\* Analyze, "Reset all engines before analysis"; ops is the list of the
\* calls the analyzer has made to its engines, in order.
EngineOp(op, k, run) == [op |-> op, engine |-> k, run |-> run]
OpsOf(op, engines, run) == [k \in 1 .. Len(engines) |-> EngineOp(op, k, run)]

BeginRunWithoutReset(engines, rules, ops, run) == [engines |-> engines, ops |-> ops]

BeginRun(engines, rules, ops, run) ==
  [engines |-> ResetAll(engines, rules), ops |-> ops \o OpsOf("Reset", engines, run)]

\* Analyze, "Apply time range filter": the record is before the start or
\* after the end of the range.
OutsideOrAtBounds(timeRange, ts) == ts <= timeRange.Start \/ ts >= timeRange.End

OutsideBothBounds(timeRange, ts) == ts < timeRange.Start /\ ts > timeRange.End

OutsideTimeRange(timeRange, ts) == ts < timeRange.Start \/ ts > timeRange.End

\* Analyze, "Process line through all engines", from engine k on; calls is
\* the list of the Process calls made, in order.
ProcessOneEngineOnly(st, rules, line, k) ==
  IF k > Len(st.engines) THEN st
  ELSE [engines |-> [st.engines EXCEPT ![k] = Process(@, rules[k], line)],
        calls |-> Append(st.calls, [engine |-> k, line |-> line])]

RECURSIVE ProcessFrom(_, _, _, _)
ProcessFrom(st, rules, line, k) ==
  IF k > Len(st.engines) THEN st
  ELSE ProcessFrom([engines |-> [st.engines EXCEPT ![k] = Process(@, rules[k], line)],
                    calls |-> Append(st.calls, [engine |-> k, line |-> line])],
                   rules, line, k + 1)

\* Analyze, the body of the loop for a record the source has delivered:
\* the source is noted, a record outside the time range is skipped, any
\* other is counted and processed by every engine.
AnalyzeLine(engines, cfg, meta, line) ==
  LET meta1 == IF \E k \in 1 .. Len(meta.Sources) : meta.Sources[k] = line.source
                 THEN meta
                 ELSE [meta EXCEPT !.Sources = Append(@, line.source)]
  IN  IF cfg.timeRange.set /\ OutsideTimeRange(cfg.timeRange, line.ts)
        THEN [engines |-> engines, meta |-> meta1, calls |-> <<>>]
        ELSE LET st == ProcessFrom([engines |-> engines, calls |-> <<>>], cfg.rules, line, 1)
             IN  [engines |-> st.engines,
                  meta |-> [meta1 EXCEPT !.LinesProcessed = @ + 1],
                  calls |-> st.calls]

\* Analyze, "Finalize all engines", from engine k on: the result lists that
\* can come out.
RECURSIVE FinalizeFrom(_, _, _)
FinalizeFrom(engines, rules, k) ==
  IF k > Len(engines) THEN {<<>>}
  ELSE {<<r>> \o rest : r \in Finalize(engines[k], rules[k]),
                        rest \in FinalizeFrom(engines, rules, k + 1)}

\* What Analyze returns: a result, or an error and no result.
\* Errors are chains of messages: fmt.Errorf with %w puts a message in
\* front of the error it wraps.
NoErr == <<>>
Canceled == <<"context canceled">>
SourceFailure == <<"source failure">>
Wrapf(msg, err) == <<msg>> \o err

AnalysisResult(results, meta) == [err |-> NoErr, Results |-> results, Metadata |-> meta]
AnalysisError(err) == [err |-> err, Results |-> <<>>, Metadata |-> NoMetadata]

\* mockSource.Next: the predefined lines in order, then end-of-stream.
MockNext(lines, index) ==
  IF index >= Len(lines) THEN [kind |-> "eof", line |-> NoLine]
  ELSE [kind |-> "line", line |-> lines[index + 1]]

\* ------------------------------------------------------- the file source
\* A file is known by what opening it and reading it has shown: whether it
\* could be opened, and its lines in order.  A line is the timestamp the
\* extractor finds in it (NoTime if it finds none) and whether the line is
\* longer than the scanner's buffer may grow.
FileIdx == 0 .. (NFiles - 1)
FileName(k) == <<"0.log", "1.log", "2.log", "3.log">>[k + 1]
LineNumeral(n) == <<"1", "2", "3", "4", "5", "6">>[n]
NoFile == -1

FileLine(stamp, long) == [stamp |-> stamp, long |-> long]
FileLines ==
  {FileLine(t, FALSE) : t \in Times} \cup {FileLine(NoTime, FALSE), FileLine(NoTime, TRUE)}
UnreadFile == [open |-> "unread", lines |-> <<>>, ended |-> FALSE]

\* TimestampExtractor.Extract: the timestamp of the line, or an error.
Extract(line) ==
  IF line.stamp = NoTime
    THEN [ts |-> NoTime, err |-> <<"timestamp pattern did not match">>]
    ELSE [ts |-> line.stamp, err |-> NoErr]

EOF == <<"EOF">>
ErrTooLong == <<"bufio.Scanner: token too long">>
OpenFailure == <<"open: no such file or directory">>
CloseFailure == <<"close: input/output error">>
WrapfFile(msg, file, err) == <<msg, file>> \o err

NewFileSource ==
  [fileIndex |-> -1, currentFile |-> NoFile, currentScanner |-> "nil",
   currentSource |-> "", currentLine |-> 0]

FileResult(op, kind, line, err) == [op |-> op, kind |-> kind, line |-> line, err |-> err]
NoFileResult == FileResult("none", "none", NoLine, NoErr)

\* The file source with what is outside it: the files and the handles.
FileWorld(src, disk, handles, n) == [src |-> src, disk |-> disk, handles |-> handles, n |-> n]

\* FileSource.closeCurrentFile; ok: the file's Close succeeds.  The handle
\* is released either way.
ForgetCurrentFile(w, ok) ==
  [w |-> [w EXCEPT !.src.currentFile = NoFile, !.src.currentScanner = "nil"],
   err |-> NoErr]

closeCurrentFile(w, ok) ==
  IF w.src.currentFile # NoFile
    THEN [w |-> [w EXCEPT !.handles = @ \ {w.src.currentFile},
                          !.src.currentFile = NoFile,
                          !.src.currentScanner = "nil"],
          err |-> IF ok THEN NoErr ELSE CloseFailure]
    ELSE [w |-> w, err |-> NoErr]

\* FileSource.openNextFile; ok: the next file can be opened.  Go's fileIndex
\* grows with every call; the model stops it at NFiles.
openNextFile(w, ok) ==
  LET idx == w.src.fileIndex + 1
  IN  IF idx >= NFiles
        THEN [w |-> [w EXCEPT !.src.fileIndex = NFiles], err |-> EOF]
      ELSE IF ~ok
        THEN [w |-> [w EXCEPT !.src.fileIndex = idx, !.disk[idx].open = "fail"],
              err |-> WrapfFile("opening log file", FileName(idx), OpenFailure)]
      ELSE [w |-> [w EXCEPT !.src.fileIndex = idx,
                            !.src.currentFile = idx,
                            !.src.currentScanner = "ready",
                            !.src.currentSource = FileName(idx),
                            !.src.currentLine = 0,
                            !.handles = @ \cup {idx},
                            !.disk[idx].open = "ok"],
            err |-> NoErr]

\* FileSource.Next, "s.currentLine++"
NextParsedLineNum(n, line) == IF Extract(line).err = NoErr THEN n + 1 ELSE n

NextLineNum(n, line) == n + 1

\* FileSource.Next: the outcomes of the call from one turn of its loop on,
\* each with the world it leaves.  A turn sees the context cancelled, or
\* opens the next file if none is open, and scans a line: a line with a
\* timestamp is returned, a line without one is skipped, a line that is too
\* long makes the scanner fail for good, and at the end of the file the file
\* is closed and the loop goes on.
RECURSIVE FileNextFrom(_)
RECURSIVE FileScanFrom(_)
FileScanned(w, line) ==
  LET f  == w.src.currentFile
      w1 == [w EXCEPT !.disk[f].lines = Append(@, line), !.n = @ + 1]
      w2 == [w1 EXCEPT !.src.currentLine = NextLineNum(@, line)]
  IN  IF line.long
        THEN {[w |-> [w1 EXCEPT !.src.currentScanner = "failed"],
               res |-> FileResult("next", "err", NoLine,
                                  WrapfFile("reading", w.src.currentSource, ErrTooLong))]}
      ELSE IF Extract(line).err # NoErr THEN FileNextFrom(w2)
      ELSE {[w |-> w2,
             res |-> FileResult("next", "line",
                                ParsedLine(Extract(line).ts, w2.src.currentSource,
                                           w2.src.currentLine, line),
                                NoErr)]}

FileEnded(w, ok) ==
  LET f == w.src.currentFile
      c == closeCurrentFile([w EXCEPT !.disk[f].ended = TRUE], ok)
  IN  IF c.err # NoErr
        THEN {[w |-> c.w, res |-> FileResult("next", "err", NoLine, c.err)]}
        ELSE FileNextFrom(c.w)

FileScanFrom(w) ==
  IF w.src.currentScanner = "failed"
    THEN {[w |-> w,
           res |-> FileResult("next", "err", NoLine,
                              WrapfFile("reading", w.src.currentSource, ErrTooLong))]}
    ELSE (IF w.n < MaxLines THEN UNION {FileScanned(w, line) : line \in FileLines} ELSE {})
           \cup UNION {FileEnded(w, ok) : ok \in BOOLEAN}

FileOpened(w, ok) ==
  LET o == openNextFile(w, ok)
  IN  IF o.err = EOF THEN {[w |-> o.w, res |-> FileResult("next", "eof", NoLine, EOF)]}
      ELSE IF o.err # NoErr
        THEN {[w |-> o.w, res |-> FileResult("next", "err", NoLine, o.err)]}
        ELSE FileScanFrom(o.w)

FileNextFrom(w) ==
  {[w |-> w, res |-> FileResult("next", "err", NoLine, Canceled)]}
    \cup (IF w.src.currentScanner = "nil"
            THEN UNION {FileOpened(w, ok) : ok \in BOOLEAN}
            ELSE FileScanFrom(w))

\* FileSource.Close
FileSourceClose(w, ok) ==
  LET c == closeCurrentFile(w, ok)
  IN  [w |-> c.w,
       res |-> FileResult("close", IF c.err = NoErr THEN "ok" ELSE "err", NoLine, c.err)]

\* ---------------------------------------------------- the format detector
\* A sample line is what the catalog's regular expressions can see of it: the
\* white space it begins with, the shape of the text that follows ("blank":
\* nothing, "comment": text beginning with '#', "iso": 2024-01-15T10:30:00,
\* "isoms": 2024-01-15T10:30:00.123, "bsd": Jun 14 15:16:01, "digits": a run of
\* decimal digits followed by a space) and, for a run of digits, the digits.
SampleLine(lead, shape, digits) == [lead |-> lead, shape |-> shape, digits |-> digits]
BlankLine == SampleLine(0, "blank", <<>>)
SampleLines ==
  {SampleLine(l, "blank", <<>>) : l \in {0, 1}}
    \cup {SampleLine(l, "comment", <<>>) : l \in {0, 1}}
    \cup {SampleLine(0, s, <<>>) : s \in {"iso", "isoms", "bsd"}}
    \cup {SampleLine(0, "digits", d) :
            d \in {<<0, 0, 0, 0, 0, 0, 0, 0, 0, 0>>, <<4, 1, 0, 2, 4, 4, 4, 8, 0, 0>>,
                   <<4, 1, 0, 2, 4, 4, 4, 8, 0, 1>>,
                   <<1, 7, 0, 5, 3, 1, 5, 8, 0, 0, 0, 0, 0>>}}

\* strings.TrimSpace, on the white space a line begins with.
TrimSpace(line) == [line EXCEPT !.lead = 0]
\* line == "" || strings.HasPrefix(line, "#")
BlankOrComment(line) == line.lead = 0 /\ line.shape \in {"blank", "comment"}

\* DefaultFormats: five formats of the catalog, in catalog order.
TimestampFormat(name, pattern, layout) == [Name |-> name, PatternStr |-> pattern, Layout |-> layout]
DefaultFormats ==
  <<TimestampFormat("ISO 8601 with milliseconds",
                    "^(\\d{4}-\\d{2}-\\d{2}T\\d{2}:\\d{2}:\\d{2}\\.\\d{3})",
                    "2006-01-02T15:04:05.000"),
    TimestampFormat("ISO 8601", "^(\\d{4}-\\d{2}-\\d{2}T\\d{2}:\\d{2}:\\d{2})",
                    "2006-01-02T15:04:05"),
    TimestampFormat("Syslog (BSD)", "^(\\w{3}\\s+\\d{1,2}\\s+\\d{2}:\\d{2}:\\d{2})",
                    "Jan 2 15:04:05"),
    TimestampFormat("Unix timestamp (seconds)", "^(\\d{10})(?:\\s|$|\\])", "UNIX_SECONDS"),
    TimestampFormat("Unix timestamp (milliseconds)", "^(\\d{13})(?:\\s|$|\\])", "UNIX_MILLIS")>>
FormatIdx == 1 .. Len(DefaultFormats)

\* format.Pattern.FindStringSubmatch(line)[1]: the text of the first capture
\* group, NoCapture if the pattern does not match.  Every pattern of the five
\* is anchored at the start of the line.
Capture(shape, digits) == [shape |-> shape, digits |-> digits]
NoCapture == Capture("", <<>>)
TimestampSubmatch(format, line) ==
  IF line.lead # 0 THEN NoCapture
  ELSE IF format.Name = "ISO 8601 with milliseconds" /\ line.shape = "isoms"
    THEN Capture("isoms", <<>>)
  ELSE IF format.Name = "ISO 8601" /\ line.shape \in {"iso", "isoms"}
    THEN Capture("iso", <<>>)
  ELSE IF format.Name = "Syslog (BSD)" /\ line.shape = "bsd"
    THEN Capture("bsd", <<>>)
  ELSE IF format.Name = "Unix timestamp (seconds)"
            /\ line.shape = "digits" /\ Len(line.digits) = 10
    THEN Capture("digits", line.digits)
  ELSE IF format.Name = "Unix timestamp (milliseconds)"
            /\ line.shape = "digits" /\ Len(line.digits) = 13
    THEN Capture("digits", line.digits)
  ELSE NoCapture

\* A parsed time: calendar times are not told apart, a Unix time is its
\* number of seconds.
Parsed(ok, secs) == [ok |-> ok, secs |-> secs]
NoTimeParsed == Parsed(FALSE, <<>>)

\* time.Parse(layout, text): the text has to be written as the layout says.
\* A layout without any element of the reference time, such as the tag
\* UNIX_SECONDS, is literal text that only the same text satisfies.
TimeParse(layout, text) ==
  IF \/ text.shape = "iso" /\ layout = "2006-01-02T15:04:05"
     \/ text.shape = "isoms" /\ layout = "2006-01-02T15:04:05.000"
     \/ text.shape = "bsd" /\ layout = "Jan 2 15:04:05"
    THEN Parsed(TRUE, <<>>)
    ELSE NoTimeParsed

\* strconv.ParseInt(text, 10, 64) of a run of at most 18 digits: the number,
\* written without leading zeros (zero is the empty numeral).
RECURSIVE ParseInt(_)
ParseInt(digits) ==
  IF digits # <<>> /\ Head(digits) = 0 THEN ParseInt(Tail(digits)) ELSE digits

RECURSIVE DigitsLeq(_, _)
DigitsLeq(a, b) ==
  \/ a = <<>>
  \/ Head(a) < Head(b)
  \/ Head(a) = Head(b) /\ DigitsLeq(Tail(a), Tail(b))
\* a <= b, for numbers written without leading zeros
NumLeq(a, b) == Len(a) < Len(b) \/ (Len(a) = Len(b) /\ DigitsLeq(a, b))

MaxUnixSeconds == <<4, 1, 0, 2, 4, 4, 4, 8, 0, 0>>
\* millis / 1000
Div1000(n) == IF Len(n) > 3 THEN SubSeq(n, 1, Len(n) - 3) ELSE <<>>

\* Detector.parseTimestamp.  The text the patterns capture has no sign, so
\* secs < 0 never holds.
parseTimestamp(tsStr, layout) ==
  IF layout = "UNIX_SECONDS"
    THEN IF tsStr.shape # "digits" THEN NoTimeParsed
         ELSE IF ~NumLeq(ParseInt(tsStr.digits), MaxUnixSeconds) THEN NoTimeParsed
         ELSE Parsed(TRUE, ParseInt(tsStr.digits))
  ELSE IF layout = "UNIX_MILLIS"
    THEN IF tsStr.shape # "digits" THEN NoTimeParsed
         ELSE IF ~NumLeq(Div1000(ParseInt(tsStr.digits)), MaxUnixSeconds) THEN NoTimeParsed
         ELSE Parsed(TRUE, Div1000(ParseInt(tsStr.digits)))
  ELSE TimeParse(layout, tsStr)

\* TimestampExtractor.Extract of NewTimestampExtractor(format.Pattern,
\* format.Layout), the extractor a file source is given.
ExtractorExtract(format, line) ==
  IF TimestampSubmatch(format, line) = NoCapture THEN NoTimeParsed
  ELSE TimeParse(format.Layout, TimestampSubmatch(format, line))

\* Detector.sampleFile: the first sampleSize lines of the file that are
\* neither blank nor comments.
RECURSIVE sampleFrom(_, _, _)
sampleFrom(file, lines, sampleSize) ==
  IF file = <<>> \/ Len(lines) >= sampleSize THEN lines
  ELSE sampleFrom(Tail(file),
                  IF BlankOrComment(TrimSpace(Head(file))) THEN lines
                  ELSE Append(lines, Head(file)),
                  sampleSize)
sampleFile(file, sampleSize) == sampleFrom(file, <<>>, sampleSize)

\* The loop of DetectFromLines: stats[format.Name].matchCount.
Counts(format, line) ==
  /\ ~BlankOrComment(TrimSpace(line))
  /\ TimestampSubmatch(format, TrimSpace(line)) # NoCapture
  /\ parseTimestamp(TimestampSubmatch(format, TrimSpace(line)), format.Layout).ok
matchCount(format, lines) == Cardinality({i \in 1 .. Len(lines) : Counts(format, lines[i])})

\* A confidence is the quotient of two counts; quotients are compared by
\* cross-multiplication.
Quotient(num, den) == [num |-> num, den |-> den]
QEq(p, q) == p.num * q.den = q.num * p.den
QGt(p, q) == p.num * q.den > q.num * p.den

FormatMatch(k, lines) ==
  [Format |-> DefaultFormats[k],
   Confidence |-> Quotient(matchCount(DefaultFormats[k], lines), Len(lines)),
   MatchCount |-> matchCount(DefaultFormats[k], lines)]

\* The less function DetectFromLines sorts with.
MoreLikely(a, b) ==
  IF ~QEq(a.Confidence, b.Confidence) THEN QGt(a.Confidence, b.Confidence)
  ELSE Len(a.Format.PatternStr) > Len(b.Format.PatternStr)

\* sort.Slice over the entries of the map stats, which ranging over the map
\* delivers in any order (Orders): the entries in an order in which no entry comes after one it
\* is less than; entries neither of which is less keep no particular order.
SortSlice(seqs) ==
  {s \in seqs : \A i, j \in 1 .. Len(s) : i < j => ~MoreLikely(s[j], s[i])}

DetectionResult(n, matches) ==
  [SampledLines |-> n, Matches |-> matches,
   ParsedLines |-> IF matches = <<>> THEN 0 ELSE matches[1].MatchCount]
NoDetection == DetectionResult(0, <<>>)

\* Detector.DetectFromLines: the results the call can return.
DetectFromLines(lines) ==
  IF lines = <<>> THEN {NoDetection}
  ELSE {DetectionResult(Len(lines), m) :
          m \in SortSlice(Orders({FormatMatch(k, lines) :
                   k \in {f \in FormatIdx : matchCount(DefaultFormats[f], lines) > 0}}))}

Extraction(name, line, res) == [format |-> name, line |-> line, res |-> res]
NoExtraction == Extraction("", BlankLine, NoTimeParsed)

\* -------------------------------------------------------- glob expansion
\* The names that patterns and files have in the model, in the order of
\* their bytes, which is the order sort.Strings sorts by.
PathNames == <<"*.log", "[", "a*", "a.log", "a.txt", "b.log">>
Rank(name) == CHOOSE k \in 1 .. Len(PathNames) : PathNames[k] = name
StringLess(a, b) == Rank(a) < Rank(b)
\* The names a file can have: "*.log" is a legal file name.
FileNames == {"*.log", "a.log", "a.txt", "b.log"}

ErrBadPattern == <<"syntax error in pattern">>

\* filepath.Match for the names of the model.
Match(pattern, name) ==
  IF pattern = "*.log" THEN name \in {"*.log", "a.log", "b.log"}
  ELSE IF pattern = "a*" THEN name \in {"a.log", "a.txt"}
  ELSE pattern = name

RECURSIVE InsertString(_, _)
InsertString(sorted, s) ==
  IF sorted = <<>> THEN <<s>>
  ELSE IF StringLess(s, Head(sorted)) THEN <<s>> \o sorted
  ELSE <<Head(sorted)>> \o InsertString(Tail(sorted), s)

\* sort.Strings
RECURSIVE SortStrings(_)
SortStrings(list) ==
  IF list = <<>> THEN <<>>
  ELSE InsertString(SortStrings(SubSeq(list, 1, Len(list) - 1)), list[Len(list)])

\* The names of a set, in any one order.
RECURSIVE Listed(_)
Listed(S) == IF S = {} THEN <<>> ELSE LET x == CHOOSE y \in S : TRUE IN <<x>> \o Listed(S \ {x})

\* filepath.Glob: the existing files the pattern matches, sorted, or
\* ErrBadPattern for a malformed pattern.
Glob(pattern, files) ==
  IF pattern = "[" THEN [matches |-> <<>>, err |-> ErrBadPattern]
  ELSE [matches |-> SortStrings(Listed({f \in files : Match(pattern, f)})), err |-> NoErr]

\* seen[name]
NeverSeen(seen, name) == FALSE

Seen(seen, name) == name \in seen

\* if !seen[name] { seen[name] = true; result = append(result, name) }
AddUnseen(st, name) ==
  IF Seen(st.seen, name) THEN st
  ELSE [seen |-> st.seen \cup {name}, result |-> Append(st.result, name)]

RECURSIVE AddMatches(_, _)
AddMatches(st, matches) ==
  IF matches = <<>> THEN st ELSE AddMatches(AddUnseen(st, Head(matches)), Tail(matches))

Expansion(kind, paths, err) == [kind |-> kind, paths |-> paths, err |-> err]
NoExpansion == Expansion("none", <<>>, NoErr)

\* The loop of ExpandGlobs over the patterns, and the sort that follows it.
RECURSIVE ExpandFrom(_, _, _)
ExpandFrom(patterns, files, st) ==
  IF patterns = <<>> THEN Expansion("ok", SortStrings(st.result), NoErr)
  ELSE IF Glob(Head(patterns), files).err # NoErr
    THEN Expansion("err", <<>>, WrapfFile("invalid glob pattern", Head(patterns),
                                          Glob(Head(patterns), files).err))
  ELSE IF Glob(Head(patterns), files).matches = <<>>
    THEN ExpandFrom(Tail(patterns), files, AddUnseen(st, Head(patterns)))
  ELSE ExpandFrom(Tail(patterns), files, AddMatches(st, Glob(Head(patterns), files).matches))

ExpandGlobs(patterns, files) == ExpandFrom(patterns, files, [seen |-> {}, result |-> <<>>])

\* ------------------------------------------------ configuration validation
\* The regular expressions a configuration is written with: none, one that
\* does not compile, one without and one with a capture group.
PatternTexts == {"", "(", "REQ", "REQ (\\d+)"}

\* regexp.Compile
Compile(text) ==
  IF text = "(" THEN [re |-> NoPattern, err |-> <<"error parsing regexp: missing closing )">>]
  ELSE IF text = "REQ (\\d+)" THEN [re |-> Pattern("REQ", 1), err |-> NoErr]
  ELSE [re |-> Pattern(text, 0), err |-> NoErr]
\* Regexp.NumSubexp
NumSubexp(re) == re.groups

DefaultTimeout == 60
DefaultMaxGap == 300

\* config.RuleConfig as it is read from the file: the patterns as texts, the
\* compiled patterns nil.
RuleConfig(name, type, pats, corrField, timeout, maxGap) ==
  [Name |-> name, Type |-> type, CorrelationField |-> corrField,
   Timeout |-> timeout, MaxGap |-> maxGap,
   StartPattern |-> pats[1], EndPattern |-> pats[2], Pattern |-> pats[3],
   TriggerPattern |-> pats[4], ExpectedPattern |-> pats[5],
   compiledStartPattern |-> NoPattern, compiledEndPattern |-> NoPattern,
   compiledPattern |-> NoPattern, compiledTriggerPattern |-> NoPattern,
   compiledExpectedPattern |-> NoPattern]

Validated(rule, err) == [rule |-> rule, err |-> err]

\* re.NumSubexp() < rule.CorrelationField
EnoughGroups(re, corrField) == FALSE

TooFewGroups(re, corrField) == NumSubexp(re) < corrField

validateSequenceRule(rule) ==
  IF rule.StartPattern = ""
    THEN Validated(rule, <<"start_pattern is required for sequence rules">>)
  ELSE IF Compile(rule.StartPattern).err # NoErr
    THEN Validated(rule, Wrapf("invalid start_pattern", Compile(rule.StartPattern).err))
  ELSE LET r1 == [rule EXCEPT !.compiledStartPattern = Compile(rule.StartPattern).re]
       IN  IF rule.EndPattern = ""
             THEN Validated(r1, <<"end_pattern is required for sequence rules">>)
           ELSE IF Compile(rule.EndPattern).err # NoErr
             THEN Validated(r1, Wrapf("invalid end_pattern", Compile(rule.EndPattern).err))
           ELSE LET r2 == [r1 EXCEPT !.compiledEndPattern = Compile(rule.EndPattern).re]
                IN  IF r2.CorrelationField < 1
                      THEN Validated(r2, <<"correlation_field must be >= 1">>)
                    ELSE IF TooFewGroups(r2.compiledStartPattern, r2.CorrelationField)
                      THEN Validated(r2, <<"start_pattern has too few capture groups">>)
                    ELSE IF TooFewGroups(r2.compiledEndPattern, r2.CorrelationField)
                      THEN Validated(r2, <<"end_pattern has too few capture groups">>)
                    ELSE IF r2.Timeout <= 0
                      THEN Validated([r2 EXCEPT !.Timeout = DefaultTimeout], NoErr)
                    ELSE Validated(r2, NoErr)

validatePeriodicRule(rule) ==
  IF rule.Pattern = ""
    THEN Validated(rule, <<"pattern is required for periodic rules">>)
  ELSE IF Compile(rule.Pattern).err # NoErr
    THEN Validated(rule, Wrapf("invalid pattern", Compile(rule.Pattern).err))
  ELSE LET r1 == [rule EXCEPT !.compiledPattern = Compile(rule.Pattern).re]
       IN  IF r1.MaxGap <= 0
             THEN Validated([r1 EXCEPT !.MaxGap = DefaultMaxGap], NoErr)
           ELSE Validated(r1, NoErr)

validateConditionalRule(rule) ==
  IF rule.TriggerPattern = ""
    THEN Validated(rule, <<"trigger_pattern is required for conditional rules">>)
  ELSE IF Compile(rule.TriggerPattern).err # NoErr
    THEN Validated(rule, Wrapf("invalid trigger_pattern", Compile(rule.TriggerPattern).err))
  ELSE LET r1 == [rule EXCEPT !.compiledTriggerPattern = Compile(rule.TriggerPattern).re]
       IN  IF rule.ExpectedPattern = ""
             THEN Validated(r1, <<"expected_pattern is required for conditional rules">>)
           ELSE IF Compile(rule.ExpectedPattern).err # NoErr
             THEN Validated(r1, Wrapf("invalid expected_pattern",
                                      Compile(rule.ExpectedPattern).err))
           ELSE LET r2 == [r1 EXCEPT !.compiledExpectedPattern = Compile(rule.ExpectedPattern).re,
                                     !.Timeout = IF @ <= 0 THEN DefaultTimeout ELSE @]
                IN  IF r2.CorrelationField > 0
                         /\ TooFewGroups(r2.compiledTriggerPattern, r2.CorrelationField)
                      THEN Validated(r2, <<"trigger_pattern has too few capture groups">>)
                    ELSE IF r2.CorrelationField > 0
                              /\ TooFewGroups(r2.compiledExpectedPattern, r2.CorrelationField)
                      THEN Validated(r2, <<"expected_pattern has too few capture groups">>)
                    ELSE Validated(r2, NoErr)

validateRule(rule) ==
  IF rule.Name = "" THEN Validated(rule, <<"name is required">>)
  ELSE IF rule.Type = "sequence" THEN validateSequenceRule(rule)
  ELSE IF rule.Type = "periodic" THEN validatePeriodicRule(rule)
  ELSE IF rule.Type = "conditional" THEN validateConditionalRule(rule)
  ELSE Validated(rule, <<"invalid type", rule.Type>>)

\* config.TimestampConfig
TimestampConfig(pattern, layout) ==
  [Pattern |-> pattern, Layout |-> layout, compiledPattern |-> NoPattern]

validateTimestampFormat(tf) ==
  IF tf.Pattern = "" THEN [tf |-> tf, err |-> <<"pattern is required">>]
  ELSE IF Compile(tf.Pattern).err # NoErr
    THEN [tf |-> tf, err |-> Wrapf("invalid pattern", Compile(tf.Pattern).err)]
  ELSE IF NumSubexp(Compile(tf.Pattern).re) < 1
    THEN [tf |-> tf, err |-> <<"pattern must have at least one capture group">>]
  ELSE IF tf.Layout = ""
    THEN [tf |-> [tf EXCEPT !.compiledPattern = Compile(tf.Pattern).re],
          err |-> <<"layout is required">>]
  ELSE [tf |-> [tf EXCEPT !.compiledPattern = Compile(tf.Pattern).re], err |-> NoErr]

\* config.Config; the model's configurations have no webhooks.
Config(sources, tf, rules) ==
  [LogSources |-> sources, TimestampFormat |-> tf, Rules |-> rules, Webhooks |-> <<>>]
NoConfig == Config(<<>>, TimestampConfig("", ""), <<>>)

Validation(kind, err) == [kind |-> kind, err |-> err]
NoValidation == Validation("none", NoErr)

\* The loop of Validate over the rules, from rule i on.
RECURSIVE validateRulesFrom(_, _)
validateRulesFrom(cfg, i) ==
  IF i > Len(cfg.Rules) THEN [cfg |-> cfg, err |-> NoErr]
  ELSE LET v == validateRule(cfg.Rules[i])
       IN  IF v.err # NoErr
             THEN [cfg |-> [cfg EXCEPT !.Rules[i] = v.rule],
                   err |-> WrapfFile("rules", cfg.Rules[i].Name, v.err)]
           ELSE validateRulesFrom([cfg EXCEPT !.Rules[i] = v.rule], i + 1)

\* Validate: the configuration as Validate leaves it, and the error.
Validate(cfg) ==
  IF Len(cfg.LogSources) = 0
    THEN [cfg |-> cfg, err |-> <<"log_sources: at least one log source is required">>]
  ELSE LET t == validateTimestampFormat(cfg.TimestampFormat)
           c1 == [cfg EXCEPT !.TimestampFormat = t.tf]
       IN  IF t.err # NoErr THEN [cfg |-> c1, err |-> Wrapf("timestamp_format", t.err)]
           ELSE IF Len(cfg.Rules) = 0
             THEN [cfg |-> c1, err |-> <<"rules: at least one rule is required">>]
           ELSE validateRulesFrom(c1, 1)

\* --------------------------------------------------- the analyze command
\* webhook.Response: the status code and the error of one Send.
Response(statusCode, err) == [StatusCode |-> statusCode, Error |-> err]

\* What Send can return: delivered, redirected, refused by the server (Send
\* sets an error for a status of 400 and above), not delivered at all.
Responses ==
  {Response(200, NoErr), Response(204, NoErr), Response(302, NoErr),
   Response(500, <<"webhook returned status 500">>),
   Response(0, <<"request failed">>)}

\* Response.Success
Success(r) == r.Error = NoErr /\ r.StatusCode >= 200 /\ r.StatusCode < 300

\* config.WebhookConfig
WebhookConfig(name, trigger) == [Name |-> name, Trigger |-> trigger]

\* commands.AnalyzeOptions
AnalyzeOptions(output, timeRange, webhookURL, webhookTrigger) ==
  [Output |-> output, TimeRange |-> timeRange, WebhookURL |-> webhookURL,
   WebhookTrigger |-> webhookTrigger]

collectWebhooks(cfg, opts) ==
  cfg.Webhooks
    \o (IF opts.WebhookURL # ""
          THEN <<WebhookConfig("cli", IF opts.WebhookTrigger = "" THEN "on_issues"
                                      ELSE opts.WebhookTrigger)>>
          ELSE <<>>)

shouldFireWebhook(trigger, hasIssues) ==
  IF trigger = "always" THEN TRUE
  ELSE IF trigger = "never" THEN FALSE
  ELSE hasIssues

\* AnalysisResult.TotalIssues
RECURSIVE TotalIssuesFrom(_, _)
TotalIssuesFrom(results, i) ==
  IF i > Len(results) THEN 0
  ELSE Len(results[i].Issues) + TotalIssuesFrom(results, i + 1)

TotalIssues(result) == TotalIssuesFrom(result.Results, 1)

\* output.NewReport: the results and the summary's total.
NewReport(result) ==
  [Results |-> result.Results, Summary |-> [TotalIssues |-> TotalIssues(result)]]
NoReport == [Results |-> <<>>, Summary |-> [TotalIssues |-> 0]]

\* Report.HasIssues
HasIssues(report) == report.Summary.TotalIssues > 0

\* createFormatter: the error it returns.
createFormatter(opts) ==
  IF opts.Output \in {"text", "json"} THEN NoErr
  ELSE <<"unknown output format (use text or json)", opts.Output>>

\* time.ParseDuration of the --time-range option: the error it returns.
ParseDuration(text) ==
  IF text = "2h" THEN NoErr ELSE <<"time: invalid duration", text>>

\* What the command finds when it runs: its options, what config.Load and
\* ExpandGlobs return, what Analyze returns, and the error of writing the
\* report to the standard output.
CommandWorld(opts, load, glob, analysis, write) ==
  [opts |-> opts, load |-> load, glob |-> glob, analysis |-> analysis, write |-> write]
NoWorld ==
  CommandWorld(AnalyzeOptions("", "", "", ""), [cfg |-> NoConfig, err |-> NoErr],
               [files |-> <<>>, err |-> NoErr], AnalysisError(NoErr), NoErr)

\* runAnalyze up to the formatted report: the report and the error.
runAnalyzeToReport(w) ==
  IF w.load.err # NoErr
    THEN [report |-> NoReport, err |-> Wrapf("loading config", w.load.err)]
  ELSE IF w.glob.err # NoErr
    THEN [report |-> NoReport, err |-> Wrapf("expanding log sources", w.glob.err)]
  ELSE IF Len(w.glob.files) = 0
    THEN [report |-> NoReport, err |-> <<"no log files matched patterns">>]
  ELSE IF w.opts.TimeRange # "" /\ ParseDuration(w.opts.TimeRange) # NoErr
    THEN [report |-> NoReport,
          err |-> Wrapf("invalid time-range", ParseDuration(w.opts.TimeRange))]
  ELSE IF w.analysis.err # NoErr
    THEN [report |-> NoReport, err |-> Wrapf("analysis failed", w.analysis.err)]
  ELSE IF createFormatter(w.opts) # NoErr
    THEN [report |-> NewReport(w.analysis), err |-> createFormatter(w.opts)]
  ELSE IF w.write # NoErr
    THEN [report |-> NewReport(w.analysis), err |-> Wrapf("formatting output", w.write)]
  ELSE [report |-> NewReport(w.analysis), err |-> NoErr]

\* if report.HasIssues() { ExitCode = 1 }
keepExitCode(exitCode, report) == exitCode

setExitCode(exitCode, report) == IF HasIssues(report) THEN 1 ELSE exitCode

\* What became of one webhook: not fired, or sent with a response.
Delivery(name, fired, resp) == [name |-> name, fired |-> fired, resp |-> resp]

\* ------------------------------------------- export and import of state
\* PeriodicState; ExportState returns nil for an engine without matches.
PeriodicState(lastMatch, source, lineNum) ==
  [LastMatch |-> lastMatch, Source |-> source, LineNum |-> lineNum]
NoPeriodicState == PeriodicState(NoTime, -1, 0)

\* PeriodicEngine.ExportState
PeriodicExportState(e) ==
  IF Len(e.matches) = 0 THEN NoPeriodicState
  ELSE LET last == e.matches[Len(e.matches)]
       IN  PeriodicState(last.timestamp, last.source, last.lineNum)

\* PeriodicEngine.ImportState
PeriodicImportState(e, state) ==
  IF state = NoPeriodicState \/ state.LastMatch = NoTime THEN e
  ELSE [e EXCEPT !.matches = <<[timestamp |-> state.LastMatch, source |-> state.Source,
                                lineNum |-> state.LineNum]>> \o @]

\* Analyze over a source that delivers the records of stream and then
\* end-of-stream: the loop from the record at hand on.
RECURSIVE AnalyzeLinesFrom(_, _, _)
AnalyzeLinesFrom(st, cfg, stream) ==
  IF stream = <<>> THEN st
  ELSE LET r == AnalyzeLine(st.engines, cfg, st.meta, Head(stream))
       IN  AnalyzeLinesFrom([engines |-> r.engines, meta |-> r.meta], cfg, Tail(stream))

\* Analyze, the whole call: the engines as it leaves them and the result,
\* for every order the engines can report their issues in.
Analyze(engines, cfg, stream) ==
  LET b  == BeginRun(engines, cfg.rules, <<>>, 1)
      st == AnalyzeLinesFrom([engines |-> b.engines, meta |-> NoMetadata], cfg, stream)
  IN  {[engines |-> st.engines, result |-> AnalysisResult(results, st.meta)] :
         results \in FinalizeFrom(st.engines, cfg.rules, 1)}

\* The variables of a part of the system that a specification does not run.
NoRule == SequenceRule("", 0, 0)
EngineIdle ==
  erule = NoRule /\ eng = NewEngine /\ estream = <<>> /\ eres = NoResult /\ wasReset = FALSE

MergeIdle ==
  /\ srcs = NewMergedSource.srcs /\ nread = 0 /\ heap = <<>> /\ closed = FALSE
  /\ mres = [kind |-> "none", line |-> NoLine] /\ prevLine = NoLine
  /\ chrono = TRUE /\ errSeen = FALSE /\ srcLast = [i \in SrcIdx |-> -1]
  /\ lastPulls = <<>>
  /\ myield = <<>> /\ memit = <<>>

AnalyzeIdle ==
  /\ acfg = [Rules |-> <<>>, ruleFilter |-> NoRuleFilter, timeRange |-> NoTimeRange,
             rules |-> <<>>]
  /\ aengines = <<>>
  /\ apc = "idle" /\ arun = 0 /\ ameta = NoMetadata /\ aout = <<>>
  /\ ainput = <<>> /\ acalls = <<>> /\ aops = <<>> /\ actx = "live" /\ apos = 0
  /\ asrcerr = NoErr

FileIdle ==
  /\ fsrc = NewFileSource /\ fdisk = [k \in FileIdx |-> UnreadFile] /\ fhandles = {}
  /\ fres = NoFileResult /\ fyield = <<>> /\ flines = 0

DetectIdle ==
  /\ dinput = <<>> /\ dvia = "none" /\ dlines = <<>>
  /\ dres = NoDetection /\ dext = NoExtraction

GlobIdle == gpatterns = <<>> /\ gfiles = {} /\ gres = NoExpansion

ValidateIdle == vcfg = NoConfig /\ vres = NoValidation

CommandIdle ==
  /\ cworld = NoWorld /\ cpc = "idle" /\ creport = NoReport /\ csent = <<>>
  /\ ExitCode = 0 /\ cerr = NoErr /\ ccode = -1

ContinueIdle ==
  /\ xstreams = <<>> /\ xcfg = NewAnalyzer(<<>>, NoTimeRange, NoRuleFilter).cfg
  /\ xengines = <<>> /\ xstate = NoPeriodicState /\ xpc = "idle" /\ xout = <<>>

LockIdle ==
  /\ lrule = NoRule /\ leng = NewEngine /\ lmu = 0 /\ lthreads = <<>>
  /\ lcalls = 0 /\ lserial = NewEngine

ToolsIdle == FileIdle /\ DetectIdle /\ GlobIdle /\ ValidateIdle /\ CommandIdle /\ ContinueIdle /\ LockIdle
PipelineIdle == MergeIdle /\ EngineIdle /\ AnalyzeIdle

\* ------------------------------------------- specification: merged source
MergeRaws == {<<>>}

MergeInit ==
  /\ srcs = NewMergedSource.srcs
  /\ nread = 0
  /\ heap = NewMergedSource.heap
  /\ closed = NewMergedSource.closed
  /\ mres = [kind |-> "none", line |-> NoLine]
  /\ prevLine = NoLine
  /\ chrono = TRUE
  /\ errSeen = FALSE
  /\ srcLast = [i \in SrcIdx |-> -1]
  /\ lastPulls = <<>>
  /\ myield = <<>> /\ memit = <<>>
  /\ EngineIdle
  /\ AnalyzeIdle
  /\ ToolsIdle

\* The choices open to a source in state s: an exhausted source can only
\* report end-of-stream again or fail.
ChoicesFor(s, raws) ==
  IF s.eof \/ nread >= MaxRecords
    THEN {Choice("eof", 0, <<>>), Choice("err", 0, <<>>)}
    ELSE ChoicesOver(raws)

\* The choices a call of Next consumes when it seeds the heap, for the
\* sources i, i+1, ...: one per source, as a function of the source index.
\* The seeding stops at the first failure, so the sources after it are not
\* asked.  The refill's choice c2 is of the popped record's source.
NotAsked == Choice("eof", 0, <<>>)

RECURSIVE SeedFrom(_, _)
SeedFrom(i, raws) ==
  IF i >= NSources THEN {[k \in SrcIdx |-> NotAsked]}
  ELSE {[rest EXCEPT ![i] = c] :
          c \in {x \in ChoicesFor(srcs[i], raws) : x.kind # "err"},
          rest \in SeedFrom(i + 1, raws)}
       \cup {[k \in SrcIdx |-> IF k = i THEN Choice("err", 0, <<>>) ELSE NotAsked]}

SeedChoices(raws) ==
  IF Len(heap) = 0 /\ ~closed THEN SeedFrom(0, raws) ELSE {[k \in SrcIdx |-> NotAsked]}

\* One call of MergedSource.Next over sources whose lines have the texts
\* raws, with the history it leaves.
CallMergedNext(raws) ==
  \E cs \in SeedChoices(raws), c2 \in ChoicesOver(raws) :
    \E r \in {MergedNext([srcs |-> srcs, heap |-> heap, closed |-> closed, n |-> nread], cs, c2)} :
    \E g \in {PullHistory([last |-> srcLast, chrono |-> chrono, err |-> errSeen], r.pulls)} :
        /\ srcs' = r.srcs
        /\ nread' = r.n
        /\ heap' = r.heap
        /\ mres' = r.res
        /\ prevLine' = IF mres.kind = "line" THEN mres.line ELSE prevLine
        /\ srcLast' = g.last
        /\ chrono' = g.chrono
        /\ errSeen' = g.err
        /\ lastPulls' = r.pulls
        /\ myield' = myield \o YieldedBy(r.pulls)
        /\ memit' = IF r.res.kind = "line" THEN Append(memit, r.res.line) ELSE memit
        /\ UNCHANGED closed

MergedSourceNext ==
  /\ CallMergedNext(MergeRaws)
  /\ UNCHANGED <<engineVars, analyzeVars, toolVars>>

MergedSourceClose ==
  /\ ~closed
  /\ LET m == MergedClose([srcs |-> srcs, heap |-> heap, closed |-> closed, n |-> nread])
     IN  /\ srcs' = m.srcs
         /\ closed' = m.closed
  /\ UNCHANGED <<nread, heap, mres, prevLine, chrono, errSeen, srcLast, lastPulls,
                 myield, memit,
                 engineVars, analyzeVars, toolVars>>

MergeNext == MergedSourceNext \/ MergedSourceClose

SpecMerge == MergeInit /\ [][MergeNext]_vars

\* --------------------------------------------- specification: one engine
\* The rules an engine is made for, all accepted by config validation:
\* validateConditionalRule checks the correlation field only when it is
\* positive, so a negative one passes.
EngineRules ==
  {SequenceRule("seq", RuleTimeout, 1)}
    \cup {PeriodicRule("per", RuleTimeout, n) : n \in {0, 2}}
    \cup {ConditionalRule("cond", RuleTimeout, f) : f \in {-1, 0, 1}}

\* The texts of the lines an engine of a rule is offered.
RawsFor(r) ==
  CASE r.Type = "sequence" ->
         {<<>>, <<Token("START", "a"), Token("END", "a")>>}
           \cup {<<Token(w, i)>> : w \in {"START", "END"}, i \in Ids}
    [] r.Type = "periodic" -> {<<>>, <<Token("HEARTBEAT", "")>>}
    [] r.Type = "conditional" ->
         {<<>>, <<Token("ERROR", "a"), Token("ALERT", "a")>>}
           \cup {<<Token(w, i)>> : w \in {"ERROR", "ALERT"}, i \in Ids}

EngineInit ==
  /\ erule \in EngineRules
  /\ eng = NewEngine
  /\ estream = <<>>
  /\ eres = NoResult
  /\ wasReset = FALSE
  /\ MergeIdle
  /\ AnalyzeIdle
  /\ ToolsIdle

EngineProcess ==
  /\ eres = NoResult
  /\ Len(estream) < MaxStream
  /\ \E t \in Times, raw \in RawsFor(erule) :
       LET line == ParsedLine(t, 0, Len(estream) + 1, raw)
       IN  /\ eng' = Process(eng, erule, line)
           /\ estream' = Append(estream, line)
  /\ UNCHANGED <<erule, eres, wasReset, mergeVars, analyzeVars, toolVars>>

EngineFinalize ==
  /\ eres = NoResult
  /\ eres' \in Finalize(eng, erule)
  /\ UNCHANGED <<erule, eng, estream, wasReset, mergeVars, analyzeVars, toolVars>>

EngineReset ==
  /\ estream # <<>>
  /\ eng' = Reset(eng, erule)
  /\ estream' = <<>>
  /\ eres' = NoResult
  /\ wasReset' = TRUE
  /\ UNCHANGED <<erule, mergeVars, analyzeVars, toolVars>>

EngineNext == EngineProcess \/ EngineFinalize \/ EngineReset

SpecEngine == EngineInit /\ [][EngineNext]_vars

\* ------------------------------------------- specification: the analyzer
\* An analyzer analyzes the merged source, and then analyzes again the
\* records that source delivered.
AnalyzeRaws == {<<Token("START", "a")>>, <<Token("END", "a")>>, <<Token("START", "b")>>}

ConfigRules == <<PeriodicRule("per", RuleTimeout, 2), SequenceRule("seq", RuleTimeout, 1)>>

AnalyzerConfigs ==
  {NewAnalyzer(ConfigRules, NoTimeRange, {"seq"}),
   NewAnalyzer(ConfigRules, TimeRange(1, 1), NoRuleFilter),
   NewAnalyzer(ConfigRules, TimeRange(MaxTs, 1), {"per", "seq"})}

AnalyzeInit ==
  /\ \E a \in AnalyzerConfigs : a.err = <<>> /\ acfg = a.cfg /\ aengines = a.engines
  /\ apc = "idle"
  /\ arun = 0
  /\ ameta = NoMetadata
  /\ aout = <<>>
  /\ ainput = <<>>
  /\ acalls = <<>>
  /\ aops = <<>>
  /\ actx = "live"
  /\ asrcerr = NoErr
  /\ apos = 0
  /\ MergeIdle
  /\ EngineIdle
  /\ ToolsIdle

\* Analyze up to its loop: a new result, the engines reset.
AnalyzeBegin ==
  /\ apc = "idle" \/ (apc = "done" /\ arun < MaxRuns)
  /\ \E b \in {BeginRun(aengines, acfg.rules, aops, arun + 1)} :
       aengines' = b.engines /\ aops' = b.ops
  /\ ameta' = NoMetadata
  /\ apc' = "reading"
  /\ arun' = arun + 1
  /\ apos' = 0
  /\ acalls' = <<>>
  /\ actx' = "live"
  /\ asrcerr' = NoErr
  /\ UNCHANGED <<acfg, aout, ainput, mergeVars, engineVars, toolVars>>

\* Analyze, "if err == io.EOF": the source has signalled end-of-stream.
IsEOFOrError(res) == res.kind \in {"eof", "err"}

IsEOF(res) == res.kind = "eof"

\* Analyze, one turn of its loop on what source.Next returned, and the
\* finalization at end-of-stream.
AnalyzeTurn(res, err) ==
  CASE IsEOF(res) ->
         /\ \E results \in FinalizeFrom(aengines, acfg.rules, 1) :
              aout' = Append(aout, AnalysisResult(results, ameta))
         /\ aops' = aops \o OpsOf("Finalize", aengines, arun)
         /\ apc' = "done"
         /\ UNCHANGED <<aengines, ameta, acalls>>
    [] ~IsEOF(res) /\ res.kind = "err" ->
         /\ aout' = Append(aout, AnalysisError(Wrapf("reading log source", err)))
         /\ apc' = "failed"
         /\ UNCHANGED <<aengines, ameta, acalls, aops>>
    [] ~IsEOF(res) /\ res.kind = "line" ->
         /\ \E r \in {AnalyzeLine(aengines, acfg, ameta, res.line)} :
              /\ aengines' = r.engines
              /\ ameta' = r.meta
              /\ acalls' = acalls \o r.calls
              /\ aops' = aops \o [c \in 1 .. Len(r.calls) |->
                                   EngineOp("Process", r.calls[c].engine, arun)]
         /\ UNCHANGED <<aout, apc>>

\* The error a file source returns from Next is a failure of the file, or
\* the context's error when the context is cancelled during the pull; the
\* merged source returns it as it is.
SourceErrors(res) == IF res.kind = "err" THEN {SourceFailure, Canceled} ELSE {NoErr}

\* The first call reads the merged source.
AnalyzeMerged ==
  /\ apc = "reading" /\ arun = 1 /\ actx = "live"
  /\ CallMergedNext(AnalyzeRaws)
  /\ \E err \in SourceErrors(mres') :
       /\ AnalyzeTurn(mres', err)
       /\ actx' = IF err = Canceled THEN "cancelled" ELSE actx
       /\ asrcerr' = err
  /\ ainput' = IF mres'.kind = "line" THEN Append(ainput, mres'.line) ELSE ainput
  /\ UNCHANGED <<acfg, arun, apos, engineVars, toolVars>>

\* A later call reads the same records again.
AnalyzeAgain ==
  /\ apc = "reading" /\ arun > 1 /\ actx = "live"
  /\ AnalyzeTurn(MockNext(ainput, apos), NoErr)
  /\ apos' = IF apos < Len(ainput) THEN apos + 1 ELSE apos
  /\ UNCHANGED <<acfg, arun, ainput, actx, asrcerr, mergeVars, engineVars, toolVars>>

\* The caller cancels the context while Analyze is running.
Cancel ==
  /\ apc = "reading" /\ actx = "live"
  /\ actx' = "cancelled"
  /\ UNCHANGED <<acfg, aengines, apc, arun, ameta, aout, ainput, acalls, aops, asrcerr, apos>>
  /\ UNCHANGED <<mergeVars, engineVars, toolVars>>

\* Analyze, the check between two records: "case <-ctx.Done()".
AnalyzeCancelled ==
  /\ apc = "reading" /\ actx = "cancelled"
  /\ aout' = Append(aout, AnalysisError(Canceled))
  /\ apc' = "failed"
  /\ UNCHANGED <<acfg, aengines, arun, ameta, ainput, acalls, aops, actx, asrcerr, apos>>
  /\ UNCHANGED <<mergeVars, engineVars, toolVars>>

AnalyzeNext ==
  AnalyzeBegin \/ AnalyzeMerged \/ AnalyzeAgain \/ Cancel \/ AnalyzeCancelled

SpecAnalyze == AnalyzeInit /\ [][AnalyzeNext]_vars

\* ------------------------------------------ specification: a file source
\* A file source over NFiles files is read with Next and closed with Close,
\* in any order.
FileInit ==
  /\ fsrc = NewFileSource
  /\ fdisk = [k \in FileIdx |-> UnreadFile]
  /\ fhandles = {}
  /\ fres = NoFileResult
  /\ fyield = <<>>
  /\ flines = 0
  /\ PipelineIdle
  /\ DetectIdle
  /\ GlobIdle
  /\ ValidateIdle
  /\ CommandIdle
  /\ ContinueIdle
  /\ LockIdle

FileSourceNext ==
  /\ \E o \in FileNextFrom(FileWorld(fsrc, fdisk, fhandles, flines)) :
       /\ fsrc' = o.w.src
       /\ fdisk' = o.w.disk
       /\ fhandles' = o.w.handles
       /\ flines' = o.w.n
       /\ fres' = o.res
       /\ fyield' = IF o.res.kind = "line" THEN Append(fyield, o.res.line) ELSE fyield
  /\ UNCHANGED <<pipelineVars, detectVars, globVars, validateVars, commandVars, continueVars, lockVars>>

FileSourceClosed ==
  /\ \E ok \in BOOLEAN :
       \E o \in {FileSourceClose(FileWorld(fsrc, fdisk, fhandles, flines), ok)} :
         /\ fsrc' = o.w.src
         /\ fhandles' = o.w.handles
         /\ fres' = o.res
  /\ UNCHANGED <<fdisk, fyield, flines, pipelineVars, detectVars, globVars, validateVars, commandVars, continueVars, lockVars>>

FileNext == FileSourceNext \/ FileSourceClosed

SpecFile == FileInit /\ [][FileNext]_vars

\* ---------------------------------------- specification: the detector
\* A detector is given a file, with some sample size, or a pre-collected
\* sample of lines; an extractor built from a format it detected is then
\* applied to lines of the input.
RECURSIVE SamplesOf(_)
SamplesOf(n) ==
  IF n = 0 THEN {<<>>}
  ELSE SamplesOf(n - 1)
         \cup {Append(s, l) : s \in {t \in SamplesOf(n - 1) : Len(t) = n - 1},
                               l \in SampleLines}

DetectInit ==
  /\ dinput \in SamplesOf(MaxSample)
  /\ dvia = "none"
  /\ dlines = <<>>
  /\ dres = NoDetection
  /\ dext = NoExtraction
  /\ PipelineIdle
  /\ FileIdle
  /\ GlobIdle
  /\ ValidateIdle
  /\ CommandIdle
  /\ ContinueIdle
  /\ LockIdle

CallDetectFromFile ==
  /\ dvia = "none"
  /\ \E sampleSize \in 1 .. MaxSample :
       /\ dlines' = sampleFile(dinput, sampleSize)
       /\ dres' \in DetectFromLines(sampleFile(dinput, sampleSize))
  /\ dvia' = "file"
  /\ UNCHANGED <<dinput, dext, pipelineVars, fileVars, globVars, validateVars, commandVars, continueVars, lockVars>>

CallDetectFromLines ==
  /\ dvia = "none"
  /\ dlines' = dinput
  /\ dres' \in DetectFromLines(dinput)
  /\ dvia' = "lines"
  /\ UNCHANGED <<dinput, dext, pipelineVars, fileVars, globVars, validateVars, commandVars, continueVars, lockVars>>

CallExtract ==
  /\ dvia # "none"
  /\ \E m \in 1 .. Len(dres.Matches), i \in 1 .. Len(dinput) :
       dext' = Extraction(dres.Matches[m].Format.Name, dinput[i],
                          ExtractorExtract(dres.Matches[m].Format, dinput[i]))
  /\ UNCHANGED <<dinput, dvia, dlines, dres, pipelineVars, fileVars, globVars, validateVars, commandVars, continueVars, lockVars>>

DetectNext == CallDetectFromFile \/ CallDetectFromLines \/ CallExtract

SpecDetect == DetectInit /\ [][DetectNext]_vars

\* -------------------------------------- specification: glob expansion
\* ExpandGlobs is called once, with some patterns, over some set of files.
RECURSIVE PatternLists(_)
PatternLists(n) ==
  IF n = 0 THEN {<<>>}
  ELSE PatternLists(n - 1)
         \cup {Append(s, p) : s \in {t \in PatternLists(n - 1) : Len(t) = n - 1},
                               p \in {PathNames[k] : k \in 1 .. Len(PathNames)}}

GlobInit ==
  /\ gpatterns \in PatternLists(MaxPatterns)
  /\ gfiles \in SUBSET FileNames
  /\ gres = NoExpansion
  /\ PipelineIdle
  /\ FileIdle
  /\ DetectIdle
  /\ ValidateIdle
  /\ CommandIdle
  /\ ContinueIdle
  /\ LockIdle

CallExpandGlobs ==
  /\ gres.kind = "none"
  /\ gres' = ExpandGlobs(gpatterns, gfiles)
  /\ UNCHANGED <<gpatterns, gfiles, pipelineVars, fileVars, detectVars, validateVars, commandVars, continueVars, lockVars>>

GlobNext == CallExpandGlobs

SpecGlob == GlobInit /\ [][GlobNext]_vars

\* ----------------------------- specification: configuration validation
\* Validate is called once on a configuration as it was read from a file.
\* Configurations with more than one rule have log sources and a valid
\* timestamp format.
PatternPairs == {<<a, b>> : a \in PatternTexts, b \in PatternTexts}
CorrelationFields == -1 .. 2
RuleConfigs ==
  {RuleConfig("seq", "sequence", <<pp[1], pp[2], "", "", "">>, f, t, 0) :
     pp \in PatternPairs, f \in CorrelationFields, t \in {0, RuleTimeout}}
    \cup {RuleConfig("cond", "conditional", <<"", "", "", pp[1], pp[2]>>, f, t, 0) :
            pp \in PatternPairs, f \in CorrelationFields, t \in {0, RuleTimeout}}
    \cup {RuleConfig("per", "periodic", <<"", "", pat, "", "">>, 0, 0, g) :
            pat \in PatternTexts, g \in {0, RuleTimeout}}
    \cup {RuleConfig("odd", "hourly", <<"", "", "", "", "">>, 0, 0, 0),
          RuleConfig("", "periodic", <<"", "", "REQ", "", "">>, 0, 0, 0)}

RECURSIVE RuleLists(_)
RuleLists(n) ==
  IF n = 0 THEN {<<>>}
  ELSE RuleLists(n - 1)
         \cup {Append(s, r) : s \in {t \in RuleLists(n - 1) : Len(t) = n - 1},
                               r \in RuleConfigs}

Configs(maxRules) ==
  {Config(ls, TimestampConfig(pat, lay), rules) :
     ls \in {<<>>, <<"a.log">>}, pat \in PatternTexts, lay \in {"", "2006-01-02 15:04:05"},
     rules \in RuleLists(1)}
    \cup {Config(<<"a.log">>, TimestampConfig("REQ (\\d+)", "2006-01-02 15:04:05"), rules) :
            rules \in RuleLists(maxRules)}

ValidateInit ==
  /\ vcfg \in Configs(MaxRules)
  /\ vres = NoValidation
  /\ PipelineIdle
  /\ FileIdle
  /\ DetectIdle
  /\ GlobIdle
  /\ CommandIdle
  /\ ContinueIdle
  /\ LockIdle

CallValidate ==
  /\ vres.kind = "none"
  /\ \E v \in {Validate(vcfg)} :
       /\ vcfg' = v.cfg
       /\ vres' = Validation(IF v.err = NoErr THEN "ok" ELSE "err", v.err)
  /\ UNCHANGED <<pipelineVars, fileVars, detectVars, globVars, commandVars, continueVars, lockVars>>

ValidateNext == CallValidate

SpecValidate == ValidateInit /\ [][ValidateNext]_vars

\* ------------------------------------------ specification: the command
\* The process runs "negalog analyze <config-file>" once.  The configuration
\* it loads has been validated, so its webhooks have one of the three
\* triggers; the command line's trigger is any text.
RECURSIVE WebhookLists(_)
WebhookLists(n) ==
  IF n = 0 THEN {<<>>}
  ELSE WebhookLists(n - 1)
         \cup {Append(l, WebhookConfig("hook", t)) :
                 l \in {x \in WebhookLists(n - 1) : Len(x) = n - 1},
                 t \in {"on_issues", "always", "never"}}

Heartbeat == PeriodicRule("heartbeat", RuleTimeout, 0)
ResultWith(n) == RuleResult(Heartbeat, [k \in 1 .. n |-> BelowMinOccurrencesIssue(Heartbeat, 0)], NoStats)
Analyses ==
  {AnalysisError(SourceFailure)}
    \cup {AnalysisResult(r, NoMetadata) :
            r \in {<<ResultWith(0)>>, <<ResultWith(1)>>, <<ResultWith(0), ResultWith(2)>>}}

CommandWorlds(maxWebhooks) ==
  {CommandWorld(AnalyzeOptions(out, tr, cli[1], cli[2]),
                [cfg |-> [NoConfig EXCEPT !.Webhooks = whs], err |-> lerr],
                glob, an, werr) :
     out \in {"text", "json", "xml"}, tr \in {"", "2h", "soon"},
     cli \in {<<"", "on_issues">>, <<"http://hook", "">>, <<"http://hook", "always">>,
              <<"http://hook", "never">>, <<"http://hook", "sometimes">>},
     whs \in WebhookLists(maxWebhooks),
     lerr \in {NoErr, <<"validation failed">>},
     glob \in {[files |-> <<>>, err |-> ErrBadPattern], [files |-> <<>>, err |-> NoErr],
               [files |-> <<"a.log">>, err |-> NoErr]},
     an \in Analyses, werr \in {NoErr, <<"write failed">>}}

CommandInit ==
  /\ cworld \in CommandWorlds(MaxWebhooks)
  /\ cpc = "start"
  /\ creport = NoReport
  /\ csent = <<>>
  /\ ExitCode = 0
  /\ cerr = NoErr
  /\ ccode = -1
  /\ PipelineIdle
  /\ FileIdle
  /\ DetectIdle
  /\ GlobIdle
  /\ ValidateIdle
  /\ ContinueIdle
  /\ LockIdle

\* runAnalyze from its start to the call of sendWebhooks, or to the error
\* it returns before.
RunAnalyze ==
  /\ cpc = "start"
  /\ \E r \in {runAnalyzeToReport(cworld)} :
       /\ creport' = r.report
       /\ cerr' = r.err
       /\ cpc' = IF r.err = NoErr THEN "webhooks" ELSE "failed"
  /\ UNCHANGED <<cworld, csent, ExitCode, ccode>>
  /\ UNCHANGED <<pipelineVars, fileVars, detectVars, globVars, validateVars, continueVars, lockVars>>

\* One turn of the loop of sendWebhooks: the next webhook is skipped, or
\* sent, and the response is logged.
SendWebhook ==
  /\ cpc = "webhooks"
  /\ Len(csent) < Len(collectWebhooks(cworld.load.cfg, cworld.opts))
  /\ \E wh \in {collectWebhooks(cworld.load.cfg, cworld.opts)[Len(csent) + 1]} :
       IF shouldFireWebhook(wh.Trigger, HasIssues(creport))
         THEN \E resp \in Responses : csent' = Append(csent, Delivery(wh.Name, TRUE, resp))
         ELSE csent' = Append(csent, Delivery(wh.Name, FALSE, Response(0, NoErr)))
  /\ UNCHANGED <<cworld, cpc, creport, ExitCode, cerr, ccode>>
  /\ UNCHANGED <<pipelineVars, fileVars, detectVars, globVars, validateVars, continueVars, lockVars>>

\* The end of runAnalyze, after sendWebhooks has returned.
RunAnalyzeReturns ==
  /\ cpc = "webhooks"
  /\ Len(csent) = Len(collectWebhooks(cworld.load.cfg, cworld.opts))
  /\ ExitCode' = setExitCode(ExitCode, creport)
  /\ cpc' = "returned"
  /\ UNCHANGED <<cworld, creport, csent, cerr, ccode>>
  /\ UNCHANGED <<pipelineVars, fileVars, detectVars, globVars, validateVars, continueVars, lockVars>>

\* Execute, after the root command has run the analyze command.
Execute ==
  /\ cpc \in {"returned", "failed"}
  /\ ccode' = IF cerr # NoErr THEN 2 ELSE ExitCode
  /\ cpc' = "exited"
  /\ UNCHANGED <<cworld, creport, csent, ExitCode, cerr>>
  /\ UNCHANGED <<pipelineVars, fileVars, detectVars, globVars, validateVars, continueVars, lockVars>>

CommandNext == RunAnalyze \/ SendWebhook \/ RunAnalyzeReturns \/ Execute

SpecCommand == CommandInit /\ [][CommandNext]_vars

\* --------------------------------- specification: two consecutive runs
\* A chronological stream is cut into the records of a first and of a
\* second run.  An analyzer of one periodic rule analyzes the first; the
\* engine's state is exported, and imported into the engine of the second
\* run's analyzer, which is the same analyzer or a new one of the same
\* configuration; that analyzer analyzes the second.
RECURSIVE ChronologicalStreams(_)
ChronologicalStreams(n) ==
  IF n = 0 THEN {<<>>}
  ELSE ChronologicalStreams(n - 1)
         \cup {Append(s, ParsedLine(t, 0, n, raw)) :
                 s \in {x \in ChronologicalStreams(n - 1) : Len(x) = n - 1},
                 t \in Times, raw \in RawsFor(PeriodicRule("per", RuleTimeout, 0))}

ContinueInit ==
  /\ \E s \in {x \in ChronologicalStreams(MaxStream) :
                 \A k \in 1 .. (Len(x) - 1) : x[k].ts <= x[k + 1].ts} :
       \E cut \in 0 .. Len(s) :
         xstreams = <<SubSeq(s, 1, cut), SubSeq(s, cut + 1, Len(s))>>
  /\ xcfg \in {NewAnalyzer(<<PeriodicRule("per", RuleTimeout, n)>>, NoTimeRange, NoRuleFilter).cfg :
                 n \in {0, 2}}
  /\ xengines = <<NewEngine>>
  /\ xstate = NoPeriodicState
  /\ xpc = "first"
  /\ xout = <<>>
  /\ PipelineIdle
  /\ FileIdle
  /\ DetectIdle
  /\ GlobIdle
  /\ ValidateIdle
  /\ CommandIdle
  /\ LockIdle

\* Analyzer.Analyze on the records of the run at hand.
CallAnalyze ==
  /\ xpc \in {"first", "second"}
  /\ \E r \in Analyze(xengines, xcfg, xstreams[Len(xout) + 1]) :
       /\ xengines' = r.engines
       /\ xout' = Append(xout, r.result)
  /\ xpc' = IF xpc = "first" THEN "export" ELSE "done"
  /\ UNCHANGED <<xstreams, xcfg, xstate>>
  /\ UNCHANGED <<pipelineVars, fileVars, detectVars, globVars, validateVars, commandVars, lockVars>>

\* PeriodicEngine.ExportState on the engine of the first run.
CallExportState ==
  /\ xpc = "export"
  /\ xstate' = PeriodicExportState(xengines[1])
  /\ xpc' = "import"
  /\ UNCHANGED <<xstreams, xcfg, xengines, xout>>
  /\ UNCHANGED <<pipelineVars, fileVars, detectVars, globVars, validateVars, commandVars, lockVars>>

\* PeriodicEngine.ImportState on the engine of the second run.
CallImportState ==
  /\ xpc = "import"
  /\ \E e \in {xengines[1], NewEngine} : xengines' = <<PeriodicImportState(e, xstate)>>
  /\ xpc' = "second"
  /\ UNCHANGED <<xstreams, xcfg, xstate, xout>>
  /\ UNCHANGED <<pipelineVars, fileVars, detectVars, globVars, validateVars, commandVars, lockVars>>

ContinueNext == CallAnalyze \/ CallExportState \/ CallImportState

SpecContinue == ContinueInit /\ [][ContinueNext]_vars

\* ------------------------------- specification: one engine, shared
\* Goroutines invoke the operations of one ConditionalEngine concurrently.
\* Every operation begins with e.mu.Lock() and a deferred e.mu.Unlock(); its
\* body is taken one statement group at a time.
Threads == 1 .. NThreads

\* TriggerState
TriggerState(correlationID, timestamp, source, lineNum) ==
  [CorrelationID |-> correlationID, Timestamp |-> timestamp, Source |-> source,
   LineNum |-> lineNum]

\* ConditionalEngine.ExportState
ConditionalExportState(e) ==
  [k \in 1 .. Len(e.triggers) |->
     TriggerState(e.triggers[k].correlationID, e.triggers[k].timestamp,
                  e.triggers[k].source, e.triggers[k].lineNum)]

\* ConditionalEngine.ImportState
ConditionalImportState(e, states) ==
  [e EXCEPT !.triggers =
     @ \o [k \in 1 .. Len(states) |->
             [correlationID |-> states[k].CorrelationID, timestamp |-> states[k].Timestamp,
              source |-> states[k].Source, lineNum |-> states[k].LineNum]]]

\* ConditionalEngine.Process, first half: the line is counted and, when it
\* matches the trigger pattern, recorded as a pending trigger.
ProcessTriggerMatch(e, rule, line) ==
  LET e0 == [e EXCEPT !.stats.LinesProcessed = @ + 1]
      tm == FindStringSubmatch(rule.TriggerPattern, line.raw)
  IN  IF tm # Nil
        THEN [e0 EXCEPT
                !.triggers =
                   Append(@, [correlationID |->
                                IF rule.CorrelationField > 0
                                   /\ rule.CorrelationField <= Len(tm) - 1
                                  THEN tm[rule.CorrelationField + 1] ELSE "",
                              timestamp |-> line.ts, source |-> line.source,
                              lineNum |-> line.lineNum]),
                !.stats.LinesMatched = @ + 1]
        ELSE e0

\* ConditionalEngine.Process, second half: a line matching the expected
\* pattern removes the triggers it satisfies.
ProcessExpectedMatch(e, rule, line) ==
  LET xm == FindStringSubmatch(rule.ExpectedPattern, line.raw)
  IN  IF xm # Nil
        THEN LET corrID == IF rule.CorrelationField > 0
                              /\ rule.CorrelationField <= Len(xm) - 1
                             THEN xm[rule.CorrelationField + 1] ELSE ""
             IN  [e EXCEPT !.triggers = removeSatisfiedTriggers(@, rule, corrID, line.ts)]
        ELSE e

\* The statement groups of the body of each operation, between the Lock and
\* the deferred Unlock.
Body(op) ==
  CASE op = "Process"     -> <<"trigger", "expected">>
    [] op = "Reset"       -> <<"triggers", "stats">>
    [] op = "Finalize"    -> <<"issues">>
    [] op = "ExportState" -> <<"states">>
    [] op = "ImportState" -> <<"append">>
    [] OTHER              -> <<>>

\* The engine after statement group k of the operation.
StepOf(op, k, e, rule, arg) ==
  CASE op = "Process" /\ k = 1 -> ProcessTriggerMatch(e, rule, arg)
    [] op = "Process" /\ k = 2 -> ProcessExpectedMatch(e, rule, arg)
    [] op = "Reset" /\ k = 1   -> [e EXCEPT !.triggers = <<>>]
    [] op = "Reset" /\ k = 2   -> [e EXCEPT !.stats = NoStats]
    [] op = "ImportState"      -> ConditionalImportState(e, arg)
    [] OTHER                   -> e

\* The engine after the whole operation, run alone.
Whole(op, e, rule, arg) ==
  CASE op = "Process"     -> ConditionalProcess(e, rule, arg)
    [] op = "Reset"       -> ConditionalReset(e)
    [] op = "ImportState" -> ConditionalImportState(e, arg)
    [] OTHER              -> e

\* What the operation returns from the engine state it reads.
Observed(op, e, rule) ==
  CASE op = "Finalize"    -> ConditionalFinalize(e, rule)
    [] op = "ExportState" -> ConditionalExportState(e)
    [] OTHER              -> <<>>

\* sync.Mutex.Lock proceeds without waiting for the mutex
MutexIgnored(mu) == TRUE

\* sync.Mutex.Lock proceeds only when no goroutine holds the mutex
MutexFree(mu) == mu = 0

NoCall == [op |-> "none", arg |-> <<>>, at |-> 0, expect |-> <<>>, seen |-> <<>>]

\* The arguments a goroutine may pass.
ArgsOf(op, rule, n) ==
  CASE op = "Process" ->
         {ParsedLine(t, 0, n, raw) : t \in Times, raw \in RawsFor(rule) \ {<<>>}}
    [] op = "ImportState" -> {<<>>, <<TriggerState("a", 0, 0, 1)>>}
    [] OTHER -> {<<>>}

LockInit ==
  /\ lrule \in {ConditionalRule("cond", RuleTimeout, f) : f \in {0, 1}}
  /\ leng = NewEngine
  /\ lmu = 0
  /\ lthreads = [t \in Threads |-> NoCall]
  /\ lcalls = 0
  /\ lserial = NewEngine
  /\ PipelineIdle
  /\ FileIdle
  /\ DetectIdle
  /\ GlobIdle
  /\ ValidateIdle
  /\ CommandIdle
  /\ ContinueIdle

\* A goroutine invokes an operation of the engine.
EngineCall(t) ==
  /\ lthreads[t].op = "none"
  /\ lcalls < MaxCalls
  /\ \E op \in {"Process", "Finalize", "Reset", "ExportState", "ImportState"} :
       \E arg \in ArgsOf(op, lrule, lcalls + 1) :
         lthreads' = [lthreads EXCEPT ![t] = [NoCall EXCEPT !.op = op, !.arg = arg]]
  /\ lcalls' = lcalls + 1
  /\ UNCHANGED <<lrule, leng, lmu, lserial>>
  /\ UNCHANGED <<pipelineVars, fileVars, detectVars, globVars, validateVars, commandVars, continueVars>>

\* e.mu.Lock()
MutexLock(t) ==
  /\ lthreads[t].op # "none" /\ lthreads[t].at = 0
  /\ MutexFree(lmu)
  /\ lmu' = t
  /\ lthreads' = [lthreads EXCEPT ![t].at = 1,
                                  ![t].expect = Observed(lthreads[t].op, lserial, lrule)]
  /\ lserial' = Whole(lthreads[t].op, lserial, lrule, lthreads[t].arg)
  /\ UNCHANGED <<lrule, leng, lcalls>>
  /\ UNCHANGED <<pipelineVars, fileVars, detectVars, globVars, validateVars, commandVars, continueVars>>

\* The next statement group of the body of the operation.
EngineStep(t) ==
  /\ lthreads[t].at \in 1 .. Len(Body(lthreads[t].op))
  /\ leng' = StepOf(lthreads[t].op, lthreads[t].at, leng, lrule, lthreads[t].arg)
  /\ lthreads' = [lthreads EXCEPT ![t].at = @ + 1,
                                  ![t].seen = Observed(lthreads[t].op, leng, lrule)]
  /\ UNCHANGED <<lrule, lmu, lcalls, lserial>>
  /\ UNCHANGED <<pipelineVars, fileVars, detectVars, globVars, validateVars, commandVars, continueVars>>

\* The deferred e.mu.Unlock(), and the return.
MutexUnlock(t) ==
  /\ lthreads[t].op # "none" /\ lthreads[t].at = Len(Body(lthreads[t].op)) + 1
  /\ lmu' = 0
  /\ lthreads' = [lthreads EXCEPT ![t] = NoCall]
  /\ UNCHANGED <<lrule, leng, lcalls, lserial>>
  /\ UNCHANGED <<pipelineVars, fileVars, detectVars, globVars, validateVars, commandVars, continueVars>>

LockNext == \E t \in Threads : EngineCall(t) \/ MutexLock(t) \/ EngineStep(t) \/ MutexUnlock(t)

SpecLock == LockInit /\ [][LockNext]_vars

\* ------------------------------------------------ claims: merged source

\* A record has been emitted after an earlier one.
EmittedAfterAnother == mres.kind = "line" /\ prevLine # NoLine

C2_TiesBySourceIndex ==
  (mres.kind = "line" /\ chrono /\ ~errSeen /\ ~closed) =>
    \A k \in 1 .. Len(heap) :
      (heap[k].sourceIdx # mres.line.source /\ heap[k].line.ts = mres.line.ts)
        => mres.line.source < heap[k].sourceIdx

\* ------------------------------------------------------ claims: engines
\* The stream an engine has been given since its construction or its last
\* Reset is estream; the k-th record of it has line number k.
IsSequence == erule.Type = "sequence"
IsPeriodic == erule.Type = "periodic"
IsConditional == erule.Type = "conditional"
Finalized == eres # NoResult
StreamIdx == 1 .. Len(estream)

\* The stream is in non-decreasing timestamp order.
ChronologicalStream ==
  \A k \in StreamIdx : k > 1 => estream[k - 1].ts <= estream[k].ts

\* The record matches the pattern with the captured id.
Captures(pat, line, id) ==
  LET m == FindStringSubmatch(pat, line.raw) IN m # Nil /\ Len(m) >= 2 /\ m[2] = id

StartEvent(k, id) == Captures(erule.StartPattern, estream[k], id)
EndEvent(k, id) == Captures(erule.EndPattern, estream[k], id)

\* The most recent start event of the id, 0 when it has none.
LatestStart(id) ==
  LET S == {k \in StreamIdx : StartEvent(k, id)}
  IN  IF S = {} THEN 0 ELSE CHOOSE k \in S : \A j \in S : j <= k

\* An end event of the id at or after record k, within the timeout of it.
EndWithinTimeoutFrom(k, id) ==
  \E j \in k .. Len(estream) :
    EndEvent(j, id) /\ estream[j].ts - estream[k].ts <= erule.Timeout

IssuesOfType(type) ==
  {k \in 1 .. Len(eres.Issues) : eres.Issues[k].Type = type}

MissingEndReported(id) ==
  \E k \in IssuesOfType("missing_end") : eres.Issues[k].Context.CorrelationID = id

MatchIdx == {k \in StreamIdx : MatchString(erule.Pattern, estream[k].raw)}
ConsecutiveMatches ==
  {p \in MatchIdx \X MatchIdx :
     p[1] < p[2] /\ ~\E k \in MatchIdx : p[1] < k /\ k < p[2]}

GapIssuesFor(p) ==
  {k \in IssuesOfType("gap_exceeded") :
     /\ eres.Issues[k].Context.LineNum = estream[p[1]].lineNum
     /\ eres.Issues[k].Context.StartTime = estream[p[1]].ts
     /\ eres.Issues[k].Context.EndTime = estream[p[2]].ts}

\* C4: at finalization a periodic rule reports one GapExceeded issue for
\* each pair of consecutive matches further apart than max_gap, and no other
\* GapExceeded issue; with no or one match it reports none.
C4_OneGapIssuePerExceedingPair ==
  (IsPeriodic /\ Finalized) =>
    /\ \A p \in ConsecutiveMatches :
         Cardinality(GapIssuesFor(p)) =
           IF estream[p[2]].ts - estream[p[1]].ts > erule.MaxGap THEN 1 ELSE 0
    /\ IssuesOfType("gap_exceeded") = UNION {GapIssuesFor(p) : p \in ConsecutiveMatches}
    /\ Cardinality(MatchIdx) <= 1 => IssuesOfType("gap_exceeded") = {}

\* C4's case: three matches, one pair further apart than max_gap and
\* reported, the other pair no further apart than max_gap and not reported.
C4_Witness ==
  /\ IsPeriodic /\ Finalized
  /\ Cardinality(MatchIdx) = 3
  /\ \E p \in ConsecutiveMatches :
       estream[p[2]].ts - estream[p[1]].ts > erule.MaxGap /\ GapIssuesFor(p) # {}
  /\ \E p \in ConsecutiveMatches :
       estream[p[2]].ts - estream[p[1]].ts <= erule.MaxGap /\ GapIssuesFor(p) = {}

\* C13: Finalize of a periodic rule reports exactly one BelowMinOccurrences
\* issue, carrying the number of matches and the minimum, when a minimum
\* greater than 0 is configured and the matches are fewer than it, and none
\* otherwise.
C13_BelowMinOccurrencesIffTooFew ==
  (IsPeriodic /\ Finalized) =>
    /\ Cardinality(IssuesOfType("below_min_occurrences")) =
         IF erule.MinOccurrences > 0 /\ Cardinality(MatchIdx) < erule.MinOccurrences
           THEN 1 ELSE 0
    /\ \A i \in IssuesOfType("below_min_occurrences") :
         /\ eres.Issues[i].Context.Occurrences = Cardinality(MatchIdx)
         /\ eres.Issues[i].Context.MinRequired = erule.MinOccurrences

\* C13's case: records were processed, none matched, a minimum is set and
\* the one issue is reported.
C13_Witness ==
  /\ IsPeriodic /\ Finalized
  /\ Len(estream) >= 2 /\ MatchIdx = {}
  /\ erule.MinOccurrences > 0
  /\ Cardinality(IssuesOfType("below_min_occurrences")) = 1

TriggerEvent(k, id) == Captures(erule.TriggerPattern, estream[k], id)
ExpectedEvent(k, id) == Captures(erule.ExpectedPattern, estream[k], id)
Correlated == IsConditional /\ erule.CorrelationField >= 1
Uncorrelated == IsConditional /\ erule.CorrelationField = 0

\* An expected match of the id at or after record k, within the timeout of it.
ExpectedWithinTimeoutFrom(k, id) ==
  \E j \in k .. Len(estream) :
    ExpectedEvent(j, id) /\ estream[j].ts - estream[k].ts <= erule.Timeout

\* The pending triggers that record k created.
PendingOf(k) == {i \in 1 .. Len(eng.triggers) : eng.triggers[i].lineNum = k}

ProcessStep == Len(estream') = Len(estream) + 1
NewLine == estream'[Len(estream')]

\* The pending triggers when the expected match of the new record is
\* handled: its own trigger match has been appended by then.
PendingBefore ==
  IF MatchString(erule.TriggerPattern, NewLine.raw)
    THEN Append(eng.triggers, [correlationID |-> "", timestamp |-> NewLine.ts,
                               source |-> NewLine.source, lineNum |-> NewLine.lineNum])
    ELSE eng.triggers

InWindow(p, line) == {i \in 1 .. Len(p) : line.ts - p[i].timestamp <= erule.Timeout}
Without(p, i) == SubSeq(p, 1, i - 1) \o SubSeq(p, i + 1, Len(p))

\* C6: under a conditional rule without a correlation group, an expected
\* match removes one pending trigger, the oldest (first to arrive, and of
\* the least timestamp when the stream is chronological) of those within
\* the timeout, and leaves every other one pending; with no pending trigger
\* within the timeout it removes none.  A record without an expected match
\* removes none.
C6_RemovesOldestInWindow ==
  [][(Uncorrelated /\ ProcessStep) =>
       LET p == PendingBefore
           w == InWindow(p, NewLine)
       IN  IF MatchString(erule.ExpectedPattern, NewLine.raw) /\ w # {}
             THEN \E i \in w :
                    /\ \A j \in w : i <= j
                    /\ ChronologicalStream' =>
                         \A j \in w : p[i].timestamp <= p[j].timestamp
                    /\ eng'.triggers = Without(p, i)
             ELSE eng'.triggers = p]_vars

\* C6's case: two triggers, then an expected match with both in its window;
\* the first is removed and the second is pending.
C6_Witness ==
  /\ Uncorrelated /\ Len(estream) = 3
  /\ \A k \in {1, 2} :
       /\ MatchString(erule.TriggerPattern, estream[k].raw)
       /\ ~MatchString(erule.ExpectedPattern, estream[k].raw)
       /\ estream[3].ts - estream[k].ts <= erule.Timeout
  /\ MatchString(erule.ExpectedPattern, estream[3].raw)
  /\ ~MatchString(erule.TriggerPattern, estream[3].raw)
  /\ PendingOf(1) = {} /\ PendingOf(2) = {1}

\* The issues that name record k as their origin.
IssuesFrom(k) == {i \in 1 .. Len(eres.Issues) : eres.Issues[i].Context.LineNum = k}

\* The records with a trigger match, and the id a trigger of the rule keeps.
TriggerIdx == {k \in StreamIdx : MatchString(erule.TriggerPattern, estream[k].raw)}
TriggerIdOf(k) ==
  IF erule.CorrelationField >= 1
    THEN FindStringSubmatch(erule.TriggerPattern, estream[k].raw)[erule.CorrelationField + 1]
    ELSE ""

\* C12: at Finalize of a conditional rule every trigger still pending is
\* reported by exactly one MissingConsequence issue, which carries its id,
\* time, source, line and the timeout, however young the trigger is; a
\* trigger that was cleared is not reported, and nothing else is.
C12_EveryPendingTriggerReportedOnce ==
  (IsConditional /\ Finalized) =>
    /\ \A k \in TriggerIdx :
         /\ Cardinality(IssuesFrom(k)) = Cardinality(PendingOf(k))
         /\ Cardinality(PendingOf(k)) <= 1
         /\ \A i \in IssuesFrom(k) :
              eres.Issues[i].Context =
                IssueContext(TriggerIdOf(k), estream[k].ts, NoTime, estream[k].source,
                             estream[k].lineNum, erule.Timeout, 0, 0, 0, 0)
    /\ \A i \in 1 .. Len(eres.Issues) :
         /\ eres.Issues[i].Type = "missing_consequence"
         /\ eres.Issues[i].Context.LineNum \in TriggerIdx

\* C12's case: at the end of the stream one trigger is pending and no older
\* than the timeout, and is reported; another was cleared and is not.
C12_Witness ==
  /\ IsConditional /\ Finalized
  /\ \E k, k2 \in TriggerIdx :
       /\ PendingOf(k) # {} /\ IssuesFrom(k) # {}
       /\ estream[Len(estream)].ts - estream[k].ts <= erule.Timeout
       /\ estream[Len(estream)].ts >= estream[k].ts
       /\ PendingOf(k2) = {} /\ IssuesFrom(k2) = {}

\* What a freshly constructed engine of the rule is after the stream.
RECURSIVE ProcessAll(_, _, _)
ProcessAll(e, rule, stream) ==
  IF stream = <<>> THEN e
  ELSE ProcessAll(Process(e, rule, Head(stream)), rule, Tail(stream))

FreshRun == ProcessAll(NewEngine, erule, estream)

\* C8: an engine that has been Reset, whatever it processed before, and has
\* then processed a stream and finalized, reports issues that a freshly
\* constructed engine of the same rule reports for that stream.  (The order
\* of a sequence rule's issues is not fixed for either engine.)
C8_ResetThenStreamAsFresh ==
  (wasReset /\ Finalized) =>
    eres.Issues \in {r.Issues : r \in Finalize(FreshRun, erule)}

\* C8's case: an engine was Reset after processing records, then processed
\* two records or more and reported an issue.
C8_Witness ==
  /\ wasReset /\ Finalized
  /\ Len(estream) >= 2
  /\ eres.Issues # <<>>

\* The start of the open entry that the end match of record j finds for the
\* id (the record's own start match is handled first), 0 if there is none.
OpenStartAt(j, id) ==
  IF StartEvent(j, id) THEN j
  ELSE LET S == {k \in 1 .. (j - 1) : StartEvent(k, id)}
       IN  IF S = {} THEN 0
           ELSE LET k == CHOOSE x \in S : \A y \in S : y <= x
                IN  IF \E i \in k .. (j - 1) :
                         EndEvent(i, id) /\ estream[i].ts - estream[k].ts <= erule.Timeout
                      THEN 0 ELSE k

\* Record j carries an end event of the id that comes after the timeout of
\* the open entry.
LateEnd(j, id) ==
  /\ EndEvent(j, id)
  /\ OpenStartAt(j, id) # 0
  /\ estream[j].ts - estream[OpenStartAt(j, id)].ts > erule.Timeout

\* The sequence that record k started is reported.
ReportedFrom(k, id) ==
  \E i \in IssuesOfType("missing_end") :
    /\ eres.Issues[i].Context.CorrelationID = id
    /\ eres.Issues[i].Context.LineNum = estream[k].lineNum
    /\ eres.Issues[i].Context.StartTime = estream[k].ts

NothingLaterFor(j, k, id) ==
  \A i \in (j + 1) .. Len(estream) :
    /\ ~StartEvent(i, id)
    /\ ~(EndEvent(i, id) /\ estream[i].ts - estream[k].ts <= erule.Timeout)

Returned(n) == n <= Len(aout) /\ aout[n].err = NoErr

\* C7: two Analyze calls on the same record stream with the same rules
\* return identical Results: for every rule the same issue list with the
\* same payloads, and the same counters.
C7_SameResultsOnSameStream ==
  \A m, n \in 1 .. Len(aout) :
    (Returned(m) /\ Returned(n)) => aout[m].Results = aout[n].Results

\* The records the merged source delivered to the first Analyze call, the
\* sequence rules of the analyzer and their events.
InputIdx == 1 .. Len(ainput)
SequenceRules == {r \in 1 .. Len(acfg.rules) : acfg.rules[r].Type = "sequence"}
StartOf(r, k, id) == Captures(acfg.rules[r].StartPattern, ainput[k], id)
EndOf(r, k, id) == Captures(acfg.rules[r].EndPattern, ainput[k], id)
InTimeRange(k) ==
  acfg.timeRange.set =>
    (acfg.timeRange.Start <= ainput[k].ts /\ ainput[k].ts <= acfg.timeRange.End)

\* Record k is the only start of the id, record j an end of it from another
\* file, and both are inside the time range.
SpansFiles(r, k, j, id) ==
  /\ StartOf(r, k, id) /\ EndOf(r, j, id)
  /\ \A k2 \in InputIdx : StartOf(r, k2, id) => k2 = k
  /\ ainput[k].source # ainput[j].source
  /\ InTimeRange(k) /\ InTimeRange(j)

MissingEndIn(n, r, id) ==
  \E i \in 1 .. Len(aout[n].Results[r].Issues) :
    /\ aout[n].Results[r].Issues[i].Type = "missing_end"
    /\ aout[n].Results[r].Issues[i].Context.CorrelationID = id

\* C9 as stated, even for chronological files only and an id started once:
\* a start in one file and an end of the same id in another file, with
\* end.ts >= start.ts and end.ts - start.ts <= timeout, leave no MissingEnd
\* for the id.
C9_PairedAcrossFiles ==
  (Returned(1) /\ chrono) =>
    \A r \in SequenceRules, id \in Ids, k, j \in InputIdx :
      (/\ SpansFiles(r, k, j, id)
       /\ ainput[j].ts >= ainput[k].ts
       /\ ainput[j].ts - ainput[k].ts <= acfg.rules[r].Timeout)
        => ~MissingEndIn(1, r, id)

\* C9, amended: the same for end.ts > start.ts, every file being
\* chronological, the id started once and both records inside the time
\* range.
C9_PairedAcrossFilesWhenEndIsLater ==
  (Returned(1) /\ chrono) =>
    \A r \in SequenceRules, id \in Ids, k, j \in InputIdx :
      (/\ SpansFiles(r, k, j, id)
       /\ ainput[j].ts > ainput[k].ts
       /\ ainput[j].ts - ainput[k].ts <= acfg.rules[r].Timeout)
        => ~MissingEndIn(1, r, id)

\* C9's case: the start is in the file of the higher index and the end in
\* the file of the lower index, a third record starts another id; the pair
\* is not reported and the other id is.
C9_Witness ==
  /\ Returned(1) /\ chrono /\ Len(ainput) = 3
  /\ \E r \in SequenceRules, id, id2 \in Ids, k, j \in InputIdx :
       /\ SpansFiles(r, k, j, id)
       /\ ainput[j].source < ainput[k].source
       /\ ainput[j].ts > ainput[k].ts
       /\ ainput[j].ts - ainput[k].ts <= acfg.rules[r].Timeout
       /\ ~MissingEndIn(1, r, id)
       /\ id2 # id /\ MissingEndIn(1, r, id2)

\* The start events of the id that the engines of a call were offered, and
\* the most recent of them (0 when there is none).
OfferedStarts(r, id) == {k \in InputIdx : StartOf(r, k, id) /\ InTimeRange(k)}
LatestOfferedStart(r, id) ==
  IF OfferedStarts(r, id) = {} THEN 0
  ELSE CHOOSE k \in OfferedStarts(r, id) : \A j \in OfferedStarts(r, id) : j <= k

MissingEndIssuesOf(n, r, id) ==
  {i \in 1 .. Len(aout[n].Results[r].Issues) :
     /\ aout[n].Results[r].Issues[i].Type = "missing_end"
     /\ aout[n].Results[r].Issues[i].Context.CorrelationID = id}

\* C11: a start event of an id that has an open entry replaces it: a
\* sequence rule reports at most one MissingEnd issue per id, and the issue
\* carries the timestamp, the source and the line number of the most recent
\* start of the id.
C11_IssueCarriesMostRecentStart ==
  \A n \in 1 .. Len(aout), r \in SequenceRules, id \in Ids :
    Returned(n) =>
      /\ Cardinality(MissingEndIssuesOf(n, r, id)) <= 1
      /\ \A i \in MissingEndIssuesOf(n, r, id) :
           /\ LatestOfferedStart(r, id) # 0
           /\ aout[n].Results[r].Issues[i].Context.StartTime
                = ainput[LatestOfferedStart(r, id)].ts
           /\ aout[n].Results[r].Issues[i].Context.Source
                = ainput[LatestOfferedStart(r, id)].source
           /\ aout[n].Results[r].Issues[i].Context.LineNum
                = ainput[LatestOfferedStart(r, id)].lineNum

\* C11's case: an id was started in one file and started again, later, in
\* another file, and is reported.
C11_Witness ==
  /\ Returned(1)
  /\ \E r \in SequenceRules, id \in Ids, k \in InputIdx :
       /\ k \in OfferedStarts(r, id)
       /\ k < LatestOfferedStart(r, id)
       /\ ainput[k].source # ainput[LatestOfferedStart(r, id)].source
       /\ ainput[k].ts < ainput[LatestOfferedStart(r, id)].ts
       /\ MissingEndIssuesOf(1, r, id) # {}

\* The records the Analyze call in progress (or the last one) has pulled, in
\* the order the source delivered them, and those of them inside the time
\* range.
Pulled == IF arun <= 1 THEN ainput ELSE SubSeq(ainput, 1, apos)
KeptIdx == {k \in 1 .. Len(Pulled) : InTimeRange(k)}
KeptBefore(k) == Cardinality({j \in KeptIdx : j < k})
NEngines == Len(acfg.rules)

\* C14: every record pulled from the source and not skipped by the time
\* range is offered to every engine exactly once, records in source order and
\* engines in rule order, every engine having processed a record before the
\* next record is offered; a skipped record is offered to no engine.
C14_EveryKeptRecordToEveryEngineOnce ==
  /\ Len(acalls) = Cardinality(KeptIdx) * NEngines
  /\ \A k \in KeptIdx, e \in 1 .. NEngines :
       acalls[KeptBefore(k) * NEngines + e] = [engine |-> e, line |-> Pulled[k]]
  /\ \A e \in 1 .. NEngines :
       aengines[e].stats.LinesProcessed = Cardinality(KeptIdx)

\* C14's case: two engines, a record skipped by the time range and two
\* records offered after it.
C14_Witness ==
  /\ NEngines = 2
  /\ Len(acalls) = 4
  /\ \E k \in 1 .. Len(Pulled) : k \notin KeptIdx /\ KeptBefore(k) = 0
  /\ acalls[2].line # acalls[3].line

\* Record k of the pulled records lies inside the closed time range, and
\* it has been offered to an engine.
InsideClosedRange(k) ==
  acfg.timeRange.Start <= Pulled[k].ts /\ Pulled[k].ts <= acfg.timeRange.End
Offered(k) == \E c \in 1 .. Len(acalls) : acalls[c].line = Pulled[k]

\* C15: with a time range configured, a pulled record is offered to the
\* engines and counted in the lines processed if and only if
\* start <= record.ts <= end, both bounds included; every other record is
\* skipped.
C15_KeptIffInsideClosedRange ==
  acfg.timeRange.set =>
    /\ \A k \in 1 .. Len(Pulled) : Offered(k) <=> InsideClosedRange(k)
    /\ ameta.LinesProcessed
         = Cardinality({k \in 1 .. Len(Pulled) : InsideClosedRange(k)})

\* C15's case: a record before the start, a record on the bounds and a
\* record after the end of the range have been pulled.
C15_Witness ==
  /\ acfg.timeRange.set
  /\ acfg.timeRange.Start <= acfg.timeRange.End
  /\ \E k \in 1 .. Len(Pulled) : Pulled[k].ts < acfg.timeRange.Start /\ ~Offered(k)
  /\ \E k \in 1 .. Len(Pulled) :
       /\ Pulled[k].ts = acfg.timeRange.Start
       /\ Pulled[k].ts = acfg.timeRange.End
       /\ Offered(k)
  /\ \E k \in 1 .. Len(Pulled) : Pulled[k].ts > acfg.timeRange.End /\ ~Offered(k)
  /\ ameta.LinesProcessed = 1

\* C16 as stated: with a time range whose start is after its end, Analyze
\* returns a lines-processed count of zero and no issue for any rule.
C16_NothingProcessedNoIssues ==
  \A n \in 1 .. Len(aout) :
    (Returned(n) /\ acfg.timeRange.set /\ acfg.timeRange.Start > acfg.timeRange.End) =>
      /\ aout[n].Metadata.LinesProcessed = 0
      /\ \A r \in 1 .. Len(aout[n].Results) : aout[n].Results[r].Issues = <<>>

StartAfterEnd == acfg.timeRange.set /\ acfg.timeRange.Start > acfg.timeRange.End
EmptyStreamIssues(rule) ==
  IF rule.Type = "periodic" /\ rule.MinOccurrences > 0
    THEN <<BelowMinOccurrencesIssue(rule, 0)>>
    ELSE <<>>

\* C16, amended: with a time range whose start is after its end, Analyze
\* returns a lines-processed count of zero, no engine is offered a record,
\* and no rule reports an issue except a periodic rule with a minimum number
\* of occurrences above zero, which reports BelowMinOccurrences with a count
\* of zero.
C16_NothingProcessedOnlyEmptyStreamIssues ==
  \A n \in 1 .. Len(aout) :
    (Returned(n) /\ StartAfterEnd) =>
      /\ aout[n].Metadata.LinesProcessed = 0
      /\ acalls = <<>>
      /\ \A r \in 1 .. Len(aout[n].Results) :
           aout[n].Results[r].Issues = EmptyStreamIssues(acfg.rules[r])

\* C16's case: the range is empty, the source delivered a start that is
\* never ended, and both kinds of rule have returned their result.
C16_Witness ==
  /\ Returned(1) /\ StartAfterEnd
  /\ \E k \in InputIdx, r \in SequenceRules, id \in Ids : StartOf(r, k, id)
  /\ \E r \in 1 .. Len(acfg.rules) : aout[1].Results[r].Issues # <<>>
  /\ \E r \in SequenceRules : aout[1].Results[r].Issues = <<>>

\* The calls run n of Analyze made to its engines, in order.
OpsOfRun(n) ==
  LET InRun(c) == c.run = n IN SelectSeq(aops, InRun)
ReachedEOF(n) == n < arun \/ apc = "done"
SourceAtEOF == IF arun = 1 THEN mres.kind = "eof" ELSE apos = Len(ainput)

\* C17: no engine's Finalize is called twice without a Reset in between:
\* every Analyze run first resets every engine, then offers records, and
\* calls Finalize on each engine exactly once if the source has signalled
\* end-of-stream, as the last calls of the run, and not at all otherwise.
C17_ResetFirstFinalizeOnceAtEOF ==
  /\ \A i, j \in 1 .. Len(aops) : i < j => aops[i].run <= aops[j].run
  /\ \A i, j \in 1 .. Len(aops) :
       (i < j /\ aops[i].op = "Finalize" /\ aops[j].op = "Finalize"
          /\ aops[i].engine = aops[j].engine)
         => \E m \in i + 1 .. j - 1 : aops[m] = EngineOp("Reset", aops[i].engine, aops[j].run)
  /\ \A n \in 1 .. arun :
       /\ Len(OpsOfRun(n)) >= NEngines
       /\ SubSeq(OpsOfRun(n), 1, NEngines) = OpsOf("Reset", aengines, n)
       /\ \A i \in NEngines + 1 .. Len(OpsOfRun(n)) : OpsOfRun(n)[i].op # "Reset"
       /\ \A i, j \in 1 .. Len(OpsOfRun(n)) :
            (i < j /\ OpsOfRun(n)[i].op = "Finalize") => OpsOfRun(n)[j].op = "Finalize"
       /\ \A e \in 1 .. NEngines :
            Cardinality({i \in 1 .. Len(OpsOfRun(n)) : OpsOfRun(n)[i] = EngineOp("Finalize", e, n)})
              = IF ReachedEOF(n) THEN 1 ELSE 0
  /\ apc = "done" => SourceAtEOF

\* C17's case: a second run over two engines has processed a record and
\* finalized, after a first run that finalized too.
C17_Witness ==
  /\ arun = 2 /\ apc = "done" /\ NEngines = 2
  /\ \E i \in 1 .. Len(OpsOfRun(2)) : OpsOfRun(2)[i].op = "Process"
  /\ \E i \in 1 .. Len(OpsOfRun(1)) : OpsOfRun(1)[i].op = "Finalize"

\* The last Analyze call has returned after its context had been
\* cancelled.
ReturnedCancelled == apc = "failed" /\ actx = "cancelled"

\* C18: when the context is cancelled, Analyze stops without processing a
\* further record and returns the context's error itself, not wrapped, and no
\* result, whether its own check between two records or the source during
\* the pull observes the cancellation.
C18_CancellationReturnedVerbatim ==
  ReturnedCancelled =>
    /\ aout[Len(aout)].err = Canceled
    /\ aout[Len(aout)].Results = <<>>

\* The source has returned an error other than end-of-stream to the last
\* Analyze call.
SourceFailed == asrcerr # NoErr
FinalizedIn(n) == \E i \in 1 .. Len(aops) : aops[i].op = "Finalize" /\ aops[i].run = n

\* C19: when the source returns an error other than end-of-stream, Analyze
\* returns an error that carries the source's error, returns no result, and
\* finalizes no engine.
C19_SourceErrorAbortsWithoutResults ==
  SourceFailed =>
    /\ apc = "failed"
    /\ Len(aout) = arun
    /\ aout[arun].err # NoErr
    /\ Tail(aout[arun].err) = asrcerr
    /\ aout[arun].Results = <<>>
    /\ aout[arun].Metadata = NoMetadata
    /\ ~FinalizedIn(arun)

\* C19's case: the source fails after records of it have been processed by
\* two engines.
C19_Witness ==
  /\ SourceFailed /\ asrcerr = SourceFailure
  /\ NEngines = 2
  /\ Len(acalls) >= 2

\* ------------------------------------------- claims: end of the merged
\* stream
Exhausted(i) == srcs[i].eof

PullIdx == 1 .. Len(lastPulls)
FailedPulls == {k \in PullIdx : lastPulls[k].out.kind = "err"}

\* C21: an error other than end-of-stream that an underlying source
\* returns, while the heap is seeded or while it is refilled after a pop, is
\* returned by the same call of Next: the call asks no source after the
\* failure and its result is that error.
C21_SourceErrorReturnedBySameCall ==
  \A k \in FailedPulls :
    /\ k = Len(lastPulls)
    /\ mres = lastPulls[k].out
    /\ mres.kind = "err" /\ mres.from = lastPulls[k].idx

\* C21's case: the call popped a record of the second source and the
\* refill, the only pull of the call, failed while the heap holds a record.
C21_Witness ==
  /\ FailedPulls = {1}
  /\ lastPulls[1].idx = 1
  /\ mres.kind = "err"
  /\ Len(heap) > 0

\* ------------------------------------------------- claims: file source
\* The records of the lines read so far from file k on that have a
\* timestamp, each with its position in its file.
ParseableIdx(k) ==
  {j \in 1 .. Len(fdisk[k].lines) : Extract(fdisk[k].lines[j]).err = NoErr /\ ~fdisk[k].lines[j].long}
RECURSIVE RecordsOfFile(_, _)
RecordsOfFile(k, j) ==
  IF j > Len(fdisk[k].lines) THEN <<>>
  ELSE (IF j \in ParseableIdx(k)
          THEN <<ParsedLine(fdisk[k].lines[j].stamp, FileName(k), j, fdisk[k].lines[j])>>
          ELSE <<>>) \o RecordsOfFile(k, j + 1)
RECURSIVE RecordsFrom(_)
RecordsFrom(k) == IF k >= NFiles THEN <<>> ELSE RecordsOfFile(k, 1) \o RecordsFrom(k + 1)

\* C22: a file source yields exactly the lines read that have a parseable
\* timestamp, in file order, the files taken in the order given; a line
\* without one is skipped and is no error; a record's line number is the
\* position of its line in its own file, skipped lines counted.
C22_YieldsParseableLinesInOrder ==
  /\ fyield = RecordsFrom(0)
  /\ \A k \in FileIdx : \A j \in FileIdx :
       (j < k /\ fdisk[k].open # "unread") => fdisk[j].open # "unread"
  /\ fres.kind = "eof" => \A k \in FileIdx : fdisk[k].open # "unread"
  /\ fres.err # Extract(FileLine(NoTime, FALSE)).err

\* C22's case: the first file's second line is yielded after its first line
\* was skipped, and then the first line of the second file.
C22_Witness ==
  /\ Len(fyield) = 2
  /\ fyield[1].source = FileName(0) /\ fyield[1].lineNum = 2
  /\ fyield[2].source = FileName(1) /\ fyield[2].lineNum = 1
  /\ Len(fdisk[0].lines) = 2 /\ fdisk[0].ended

\* The last call of Next failed on a line that is too long: the line is the
\* last one read of the current file.
CurrentLines == fdisk[fsrc.currentFile].lines
FailedOnLongLine ==
  /\ fres.op = "next" /\ fres.kind = "err"
  /\ fsrc.currentScanner = "failed"
  /\ fres.err # Canceled
Names(err, word) == \E i \in 1 .. Len(err) : err[i] = word

\* C23: a line longer than the maximum line size makes Next fail with an
\* error that names the file and the approximate line number.
C23_LongLineErrorNamesFileAndLine ==
  FailedOnLongLine =>
    /\ Names(fres.err, FileName(fsrc.currentFile))
    /\ \/ Names(fres.err, LineNumeral(Len(CurrentLines)))
       \/ Names(fres.err, LineNumeral(fsrc.currentLine + 1))
       \/ (fsrc.currentLine > 0 /\ Names(fres.err, LineNumeral(fsrc.currentLine)))

\* The handles the file source should hold: that of its current file.
HeldHandles == IF fsrc.currentFile = NoFile THEN {} ELSE {fsrc.currentFile}

\* C24: Close releases the file handle on every path: when Close has
\* returned, with or without an error, no file is open, whether the source
\* was closed in the middle of a file, after a read error, after a
\* cancellation or after end-of-stream; and the source never holds a handle
\* beside that of its current file.
C24_CloseReleasesHandle ==
  /\ fres.op = "close" => (fhandles = {} /\ fsrc.currentFile = NoFile)
  /\ fhandles = HeldHandles

\* C24's case: the second file was open, its scanner had failed on a line
\* that is too long, and Close has closed it.
C24_Witness ==
  /\ fres.op = "close"
  /\ fsrc.fileIndex = 1
  /\ Len(fdisk[1].lines) = 2 /\ fdisk[1].lines[2].long /\ ~fdisk[1].ended
  /\ fhandles = {}

\* ---------------------------------------- claims: engines side by side
\* The records of the input inside the time range, and the rule the
\* configuration gives the k-th engine.
RECURSIVE KeptFrom(_)
KeptFrom(k) ==
  IF k > Len(ainput) THEN <<>>
  ELSE (IF InTimeRange(k) THEN <<ainput[k]>> ELSE <<>>) \o KeptFrom(k + 1)
KeptRecords == KeptFrom(1)
ConfiguredRule(k) == SelectedRules(acfg.Rules, acfg.ruleFilter)[k]

\* What an engine of the rule, made for it alone, returns for the stream.
Alone(rule, stream) == Finalize(ProcessAll(NewEngine, rule, stream), rule)

\* C25: engines share no state: the result an engine returns in an Analyze
\* call is what an engine of its rule, run alone on the records offered,
\* returns, whichever other engines the rule filter has put beside it.
C25_ResultAsIfAlone ==
  \A n \in 1 .. Len(aout) :
    Returned(n) =>
      /\ Len(aout[n].Results) = Len(SelectedRules(acfg.Rules, acfg.ruleFilter))
      /\ \A k \in 1 .. Len(aout[n].Results) :
           aout[n].Results[k] \in Alone(ConfiguredRule(k), KeptRecords)

\* C25's case: two engines side by side have processed the same records and
\* both report an issue.
C25_Witness ==
  /\ Returned(1) /\ NEngines = 2
  /\ Len(KeptRecords) >= 2
  /\ \A k \in 1 .. 2 : aout[1].Results[k].Issues # <<>>
  /\ aout[1].Results[1].Issues # aout[1].Results[2].Issues

\* ----------------------------------------------- claims: the detector
\* The lines of a sample that are neither blank nor comments.
Considered(lines) ==
  {i \in 1 .. Len(lines) : ~BlankOrComment(TrimSpace(lines[i]))}

\* C26: after either call, of a file or of a pre-collected sample, every
\* match of the result has as confidence the number of sampled lines its
\* format matched and parsed, divided by the number of sampled lines that
\* are neither blank nor comments.
C26_ConfidenceOverConsideredLines ==
  dvia # "none" =>
    \A m \in 1 .. Len(dres.Matches) :
      /\ dres.Matches[m].Confidence.den > 0
      /\ QEq(dres.Matches[m].Confidence,
             Quotient(matchCount(dres.Matches[m].Format, dlines),
                      Cardinality(Considered(dlines))))

\* The place of a format in the catalog.
CatalogIndex(format) == CHOOSE k \in FormatIdx : DefaultFormats[k] = format

\* Match a ranks before match b: by confidence, then by the length of the
\* pattern string, then by the place in the catalog.
RanksBefore(a, b) ==
  \/ QGt(a.Confidence, b.Confidence)
  \/ /\ QEq(a.Confidence, b.Confidence)
     /\ \/ Len(a.Format.PatternStr) > Len(b.Format.PatternStr)
        \/ /\ Len(a.Format.PatternStr) = Len(b.Format.PatternStr)
           /\ CatalogIndex(a.Format) < CatalogIndex(b.Format)

\* C27: the matches of a result are exactly the formats that matched and
\* parsed at least one sampled line, each once, ordered by confidence
\* descending, then by pattern-string length descending, and formats equal
\* in both in catalog order.
C27_RankedWithTiesInCatalogOrder ==
  dvia # "none" =>
    /\ {dres.Matches[m].Format : m \in 1 .. Len(dres.Matches)}
         = {DefaultFormats[k] : k \in {f \in FormatIdx : matchCount(DefaultFormats[f], dlines) > 0}}
    /\ \A i, j \in 1 .. Len(dres.Matches) :
         i < j => RanksBefore(dres.Matches[i], dres.Matches[j])

\* ------------------------------------------------ claims: glob expansion
\* The pattern matches none of the existing files.
Unmatched(pattern) == \A f \in gfiles : ~Match(pattern, f)

\* C28: the list ExpandGlobs returns is sorted and has no name twice, and
\* every pattern it was given that matches no file is in it, once and as it
\* was given.
C28_SortedDeduplicatedUnmatchedOnce ==
  gres.kind = "ok" =>
    /\ \A i, j \in 1 .. Len(gres.paths) : i < j => StringLess(gres.paths[i], gres.paths[j])
    /\ \A k \in 1 .. Len(gpatterns) :
         Unmatched(gpatterns[k])
           => Cardinality({i \in 1 .. Len(gres.paths) : gres.paths[i] = gpatterns[k]}) = 1

\* An unmatched pattern given twice, behind a pattern that matches two files.
C28_Witness ==
  /\ gres.kind = "ok"
  /\ Len(gpatterns) = 3
  /\ gpatterns[2] = gpatterns[3] /\ Unmatched(gpatterns[3])
  /\ Len(gres.paths) = 3

\* ------------------------------------- claims: Unix-seconds timestamps
UnixSeconds == DefaultFormats[4]

\* The number a run of digits writes, for runs of at most five digits.
RECURSIVE Value(_)
Value(digits) ==
  IF digits = <<>> THEN 0
  ELSE 10 * Value(SubSeq(digits, 1, Len(digits) - 1)) + digits[Len(digits)]

\* A run of ten digits writes a number in [0, 4102444800]: compared by its
\* first five and its last five digits.
InUnixRange(digits) ==
  \/ Value(SubSeq(digits, 1, 5)) < 41024
  \/ Value(SubSeq(digits, 1, 5)) = 41024 /\ Value(SubSeq(digits, 6, 10)) <= 44800

\* The line begins with ten digits that write a number in [0, 4102444800].
StampedInUnixRange(line) ==
  /\ TimestampSubmatch(UnixSeconds, line) # NoCapture
  /\ InUnixRange(TimestampSubmatch(UnixSeconds, line).digits)

\* C29: under the layout tag UNIX_SECONDS a time point is extracted exactly
\* when the captured digits write a number in [0, 4102444800], in the
\* detector (the lines counted for the Unix-seconds format) and in the
\* extractor a file source is given.
C29_UnixSecondsExtractedIffInRange ==
  /\ dvia # "none" =>
       matchCount(UnixSeconds, dlines)
         = Cardinality({i \in Considered(dlines) : StampedInUnixRange(TrimSpace(dlines[i]))})
  /\ dext.format = UnixSeconds.Name =>
       (dext.res.ok <=> StampedInUnixRange(dext.line))

\* ------------------------------------- claims: configuration validation
\* The regular expressions a rule applies its correlation index to, those
\* of them that compile.
CorrelatedPatterns(rule) ==
  {t \in IF rule.Type = "sequence" THEN {rule.StartPattern, rule.EndPattern}
         ELSE IF rule.Type = "conditional" THEN {rule.TriggerPattern, rule.ExpectedPattern}
         ELSE {} : Compile(t).err = NoErr}

\* The rule's correlation index is greater than the number of capture groups
\* of a regular expression it is applied to.
IndexBeyondGroups(rule) ==
  \E t \in CorrelatedPatterns(rule) : rule.CorrelationField > Compile(t).re.groups

\* C30: a configuration one of whose rules has a correlation index greater
\* than the number of capture groups of its start or end pattern (sequence)
\* or of its trigger or expected pattern (conditional) is rejected by
\* Validate with an error; in every accepted configuration every rule's
\* index is at most the number of groups of each of these patterns.
C30_IndexWithinGroupsOrRejected ==
  vres.kind # "none" =>
    /\ vres.kind = "ok" <=> vres.err = NoErr
    /\ (\E i \in 1 .. Len(vcfg.Rules) : IndexBeyondGroups(vcfg.Rules[i])) => vres.kind = "err"

\* An accepted configuration of a sequence rule and a conditional rule,
\* each with index 1 and one capture group in both patterns.
C30_Witness ==
  /\ vres.kind = "ok"
  /\ Len(vcfg.Rules) = 2
  /\ vcfg.Rules[1].Type = "sequence" /\ vcfg.Rules[1].CorrelationField = 1
  /\ vcfg.Rules[2].Type = "conditional" /\ vcfg.Rules[2].CorrelationField = 1
  /\ \A i \in 1 .. 2 : \A t \in CorrelatedPatterns(vcfg.Rules[i]) : Compile(t).re.groups = 1

\* --------------------------------------------- claims: the analyze command
\* The command met a configuration or runtime error: the configuration did
\* not load, the log sources did not expand or matched no file, the time
\* range or the output format is not one the command knows, the analysis
\* failed, or the report could not be written.
CommandFailure ==
  \/ cworld.load.err # NoErr
  \/ cworld.glob.err # NoErr
  \/ cworld.glob.files = <<>>
  \/ cworld.opts.TimeRange \notin {"", "2h"}
  \/ cworld.analysis.err # NoErr
  \/ cworld.opts.Output \notin {"text", "json"}
  \/ cworld.write # NoErr

\* The issues the analysis detected.
IssuesDetected ==
  {<<i, k>> \in (1 .. Len(cworld.analysis.Results)) \X (1 .. 2) :
     k <= Len(cworld.analysis.Results[i].Issues)}

\* C31: the exit code of analyze is 2 on a configuration or runtime error,
\* else 1 when the analysis detected issues and 0 when it detected none,
\* whatever became of the webhooks.
C31_ExitCodeFromDetectionOnly ==
  cpc = "exited" =>
    ccode = IF CommandFailure THEN 2 ELSE IF IssuesDetected # {} THEN 1 ELSE 0

\* The command exits with 0 after a webhook was not delivered and another
\* was answered with a status that is no success.
C31_Witness ==
  /\ cpc = "exited" /\ ccode = 0
  /\ \E i \in 1 .. Len(csent) : csent[i].fired /\ csent[i].resp.Error # NoErr
  /\ \E i \in 1 .. Len(csent) :
       csent[i].fired /\ csent[i].resp.Error = NoErr /\ ~Success(csent[i].resp)

\* ------------------------------------ claims: the merged source's records
\* The records the heap holds, and the positions of the two histories.
Held == {heap[k].line : k \in 1 .. Len(heap)}
YieldIdx == 1 .. Len(myield)
EmitIdx == 1 .. Len(memit)

\* C32: every record an underlying source has yielded is held in the heap
\* or has been returned by Next, no record is returned twice, every record
\* returned was yielded, and the records of one source are returned in the
\* order the source yielded them (a record's line number counts the
\* records its source has yielded).
C32_EveryRecordOnceInSourceOrder ==
  /\ \A k \in YieldIdx : myield[k] \in Held \/ \E j \in EmitIdx : memit[j] = myield[k]
  /\ \A i, j \in EmitIdx : i # j => memit[i] # memit[j]
  /\ \A j \in EmitIdx : \E k \in YieldIdx : myield[k] = memit[j]
  /\ \A i, j \in EmitIdx :
       i < j /\ memit[i].source = memit[j].source => memit[i].lineNum < memit[j].lineNum

\* C40: a record that a call of Next takes out of the heap is the record
\* that call returns.  (The merged source keeps records nowhere but in its
\* heap, so a record that leaves the heap unreturned cannot be returned by
\* a later call either.)
C40_PoppedRecordDelivered ==
  [][\A r \in Held : r \in Held' \/ (mres'.kind = "line" /\ mres'.line = r)]_vars

\* ----------------------------------------- claims: continuation of a run
\* The GapExceeded issues of the one rule in what an Analyze call returned.
GapExceededIn(result) ==
  {result.Results[1].Issues[k] :
     k \in {j \in 1 .. Len(result.Results[1].Issues) :
              result.Results[1].Issues[j].Type = "gap_exceeded"}}

\* C33: the two runs, the second continued from the state exported after
\* the first, report together the GapExceeded issues that one run over the
\* records of both reports.
C33_ContinuedRunsAsOneRun ==
  xpc = "done" =>
    \E one \in Analyze(<<NewEngine>>, xcfg, xstreams[1] \o xstreams[2]) :
      GapExceededIn(xout[1]) \cup GapExceededIn(xout[2]) = GapExceededIn(one.result)

\* ------------------------------------ claims: a record of both patterns
\* C34: the pending trigger that a record's trigger match creates, and the
\* open sequence that a record's start match creates, are still pending
\* when the record has been processed: the record's own expected or end
\* match does not clear them.
C34_OwnEntryStaysPending ==
  [][ProcessStep =>
       /\ (IsConditional /\ MatchString(erule.TriggerPattern, NewLine.raw)) =>
            \E i \in 1 .. Len(eng'.triggers) : eng'.triggers[i].lineNum = NewLine.lineNum
       /\ (IsSequence /\ \E id \in Ids : Captures(erule.StartPattern, NewLine, id)) =>
            \E id \in DOMAIN eng'.openSequences :
              eng'.openSequences[id].lineNum = NewLine.lineNum]_vars

\* ------------------------------------ claims: the conditional rule's index
\* C35: a configuration that Validate accepts has no conditional rule with
\* a negative correlation index.
C35_NegativeIndexRejected ==
  vres.kind = "ok" =>
    \A i \in 1 .. Len(vcfg.Rules) :
      vcfg.Rules[i].Type = "conditional" => vcfg.Rules[i].CorrelationField >= 0

\* ------------------------------------------- claims: the sources seen
\* C36: every source listed in the metadata of a result that Analyze
\* returned is the source of a record that was inside the time range, and
\* so counted and offered to the engines.
C36_ListedSourcesContributed ==
  \A n \in 1 .. Len(aout) :
    Returned(n) =>
      \A s \in 1 .. Len(aout[n].Metadata.Sources) :
        \E k \in InputIdx : ainput[k].source = aout[n].Metadata.Sources[s] /\ InTimeRange(k)

\* -------------------------------- claims: the file source after a failure
\* The last call was a Next that failed because a file could not be opened
\* or could not be read.
FailedToOpenOrRead ==
  /\ fres.op = "next" /\ fres.kind = "err"
  /\ Names(fres.err, OpenFailure[1]) \/ Names(fres.err, ErrTooLong[1])

\* C37: the call that follows a Next that failed to open or to read a file
\* does not yield a record.
C37_NoRecordAfterFailure ==
  [][FailedToOpenOrRead => ~(fres'.op = "next" /\ fres'.kind = "line")]_vars

\* C38: the file source holds at most one open file handle at any time, and
\* none once Next has returned end-of-stream (the file index is then past
\* the last file, and stays there).
C38_AtMostOneHandleNoneAfterEOF ==
  /\ Cardinality(fhandles) <= 1
  /\ (fres.op = "next" /\ fres.kind = "eof") => fsrc.fileIndex >= NFiles
  /\ fsrc.fileIndex >= NFiles => fhandles = {}

\* C38's case: every file was opened and read to its end, one after the
\* other, and Next has returned end-of-stream.
C38_Witness ==
  /\ fres.op = "next" /\ fres.kind = "eof"
  /\ \A k \in FileIdx : fdisk[k].open = "ok" /\ fdisk[k].ended /\ Len(fdisk[k].lines) >= 1
  /\ fhandles = {}

\* C39: Process, Finalize, Reset, ExportState and ImportState of one engine
\* are mutually exclusive. Invoked concurrently, at most one goroutine is
\* inside an operation; whenever the mutex is free the engine is in the state
\* the operations, each run whole and one after another in locking order,
\* leave; and a Finalize or an ExportState returns what it would return in
\* that order, so an ExportState never sees a partially applied Process.
Inside(t) == lthreads[t].op # "none" /\ lthreads[t].at >= 1

HasRead(t) ==
  /\ lthreads[t].op \in {"Finalize", "ExportState"}
  /\ lthreads[t].at = Len(Body(lthreads[t].op)) + 1

C39_OperationsRunOneAfterAnother ==
  /\ Cardinality({t \in DOMAIN lthreads : Inside(t)}) <= 1
  /\ (lmu = 0 => leng = lserial)
  /\ \A t \in DOMAIN lthreads : HasRead(t) => lthreads[t].seen = lthreads[t].expect

\* An ExportState waits for the mutex while the Process of another goroutine
\* has recorded its trigger and not yet removed the triggers it satisfies.
C39_Witness ==
  \E t1, t2 \in DOMAIN lthreads :
    /\ lthreads[t1].op = "ExportState" /\ lthreads[t1].at = 0
    /\ lthreads[t2].op = "Process" /\ lthreads[t2].at = 2
    /\ lmu = t2
    /\ Len(leng.triggers) > Len(lserial.triggers)

====
